---- MODULE Spec2Model ----
(***************************************************************************)
(* SEAA kernel: the genome (DNA) with its failure ledger and circuit       *)
(* breaker, the genome store (DNARepository) and the orchestrator          *)
(* (Genesis).                                                              *)
(*                                                                         *)
(* Time is counted in whole minutes.  An optional value (Python None or a  *)
(* value) is a sequence of length 0 or 1.  A timestamp string is the pair  *)
(* <<minutes, "Z">> that isoformat() + "Z" writes.  A Failure's timestamp  *)
(* is written and shown but never read by the kernel and is left out of    *)
(* the record, as are the creation and update stamps of blueprints.        *)
(***************************************************************************)
EXTENDS Integers, Sequences, FiniteSets, TLC

VARIABLES
    dna,               \* the in-memory genome (seaa.dna.schema.DNA)
    now,               \* datetime.utcnow(), in minutes
    max_attempts,      \* config.circuit_breaker.max_attempts
    cooldown_minutes,  \* config.circuit_breaker.cooldown_minutes
    ret,               \* the call made by the last step and what it returned
    track,             \* history of every unit, kept for the properties only
    disk,              \* the genome file and its digest companion file
    backups,           \* the backup directory: backup name -> bytes
    verify_integrity,  \* DNARepository.verify_integrity
    loaded,            \* what the last load() did
    seal,              \* the last save: genome and bytes, for the properties
    running_organs,    \* Assimilator.running_organs: the units with a thread
    max_total_organs,  \* config.metabolism.max_total_organs
    bus,               \* the EventBus, its worker threads and its histories
    io,                \* a save() in progress, step by step, and a reader
    genesis,           \* the Genesis object: its phase, its _running flag, its caps
    soma,              \* the deployment directory and Genealogy's history of it
    threads            \* the control thread and the units' threads, step by step

ledgerVars == <<dna, now, max_attempts, cooldown_minutes, ret, track>>
storeVars == <<disk, backups, verify_integrity, loaded, seal>>
genesisVars == <<running_organs, max_total_organs, soma>>
auxVars == <<bus, io, genesis, threads>>
vars == <<ledgerVars, storeVars, genesisVars, auxVars>>

-----------------------------------------------------------------------------
(* Bounds *)

MaxTime == 2
MaxCooldown == 2
MaxAttempts == 3
MaxCount == MaxAttempts + 1
MaxTotalOrgans == 50
MaxTotalFailures == 2

Names == {"soma.perception.fswatch", "soma.memory.journal"}
Messages == {"boom"}

None == << >>
Some(x) == <<x>>

-----------------------------------------------------------------------------
(* FailureType and Failure *)

FailureType == {"IMPORT", "VALIDATION", "RUNTIME", "GENERATION", "MATERIALIZATION"}

isoformatZ(t) == <<t, "Z">>

rstripZ(s) == IF Len(s) > 0 /\ s[Len(s)] = "Z" THEN SubSeq(s, 1, Len(s) - 1) ELSE s

fromisoformat(s) == s[1]

NewFailure(name, kind, msg) ==
    [module_name       |-> name,
     error_type        |-> kind,
     error_message     |-> msg,
     attempt_count     |-> 1,
     context           |-> << >>,
     circuit_open      |-> FALSE,
     circuit_opened_at |-> None]

DNAMetadata0 ==
    [last_modified         |-> isoformatZ(0),
     total_evolutions      |-> 0,
     total_failures        |-> 0,
     last_successful_organ |-> None]

-----------------------------------------------------------------------------
(* DNA *)

\* index of the first record of `name` in the ledger, 0 if there is none
FirstIdx(fs, name) ==
    IF \E i \in 1..Len(fs) : fs[i].module_name = name
    THEN CHOOSE i \in 1..Len(fs) :
            /\ fs[i].module_name = name
            /\ \A j \in 1..(i - 1) : fs[j].module_name # name
    ELSE 0

HasRecord(d, name) == FirstIdx(d.failures, name) # 0

Record(d, name) == d.failures[FirstIdx(d.failures, name)]

SelectSeqNot(fs, name) ==
    LET keep(f) == f.module_name # name IN SelectSeq(fs, keep)

add_failure(d, name, kind, msg) ==
    LET i == FirstIdx(d.failures, name) IN
    IF i # 0
    THEN [d EXCEPT !.failures[i].attempt_count = @ + 1,
                   !.failures[i].error_type = kind,
                   !.failures[i].error_message = msg]
    ELSE [d EXCEPT !.failures = Append(@, NewFailure(name, kind, msg)),
                   !.metadata.total_failures = @ + 1]

clear_failure(d, name) == [d EXCEPT !.failures = SelectSeqNot(@, name)]

\* open_circuit that forgets the time stamp
open_circuit_unstamped(d, name, t) ==
    LET i == FirstIdx(d.failures, name) IN
    IF i # 0
    THEN [d EXCEPT !.failures[i].circuit_open = TRUE]
    ELSE d

open_circuit(d, name, t) ==
    LET i == FirstIdx(d.failures, name) IN
    IF i # 0
    THEN [d EXCEPT !.failures[i].circuit_open = TRUE,
                   !.failures[i].circuit_opened_at = Some(isoformatZ(t))]
    ELSE d

is_circuit_open(d, name) ==
    LET i == FirstIdx(d.failures, name) IN
    IF i # 0 THEN d.failures[i].circuit_open ELSE FALSE

reset_circuit(d, name) ==
    LET i == FirstIdx(d.failures, name) IN
    IF i # 0
    THEN [d EXCEPT !.failures[i].circuit_open = FALSE,
                   !.failures[i].circuit_opened_at = None,
                   !.failures[i].attempt_count = 0]
    ELSE d

\* minutes since the circuit of record f was opened
Elapsed(f, t) == t - fromisoformat(rstripZ(f.circuit_opened_at[1]))

\* should_attempt returns a value and, as a side effect, may open or close
\* the circuit: [value, dna] is the pair of both.
should_attempt_body(d, name, maxA, cooldown, t, late, keep) ==
    LET i == FirstIdx(d.failures, name) IN
    IF i = 0 THEN [value |-> TRUE, dna |-> d]
    ELSE LET f == d.failures[i] IN
         IF f.circuit_open
         THEN IF f.circuit_opened_at # None
              THEN IF Elapsed(f, t) < cooldown
                   THEN [value |-> FALSE, dna |-> d]
                   ELSE [value |-> TRUE,
                         dna   |-> IF keep THEN d
                                   ELSE [d EXCEPT
                                      !.failures[i].circuit_open = FALSE,
                                      !.failures[i].circuit_opened_at = None]]
              ELSE [value |-> FALSE, dna |-> d]
         ELSE IF f.attempt_count >= maxA + (IF late THEN 1 ELSE 0)
              THEN [value |-> FALSE, dna |-> open_circuit(d, name, t)]
              ELSE [value |-> TRUE, dna |-> d]

\* opens the circuit one failure late (> instead of >=)
should_attempt_late(d, name, maxA, cooldown, t) ==
    should_attempt_body(d, name, maxA, cooldown, t, TRUE, FALSE)

\* allows the retry after the cooldown but leaves the circuit open
should_attempt_keeps_open(d, name, maxA, cooldown, t) ==
    should_attempt_body(d, name, maxA, cooldown, t, FALSE, TRUE)

should_attempt(d, name, maxA, cooldown, t) ==
    LET i == FirstIdx(d.failures, name) IN
    IF i = 0 THEN [value |-> TRUE, dna |-> d]
    ELSE LET f == d.failures[i] IN
         IF f.circuit_open
         THEN IF f.circuit_opened_at # None
              THEN IF Elapsed(f, t) < cooldown
                   THEN [value |-> FALSE, dna |-> d]
                   ELSE [value |-> TRUE,
                         dna   |-> [d EXCEPT !.failures[i].circuit_open = FALSE,
                                             !.failures[i].circuit_opened_at = None]]
              ELSE [value |-> FALSE, dna |-> d]
         ELSE IF f.attempt_count >= maxA
              THEN [value |-> FALSE, dna |-> open_circuit(d, name, t)]
              ELSE [value |-> TRUE, dna |-> d]

NewGoal(description, patterns) ==
    [description     |-> description,
     priority        |-> 1,
     satisfied       |-> FALSE,
     required_organs |-> patterns]

DefaultGoals ==
    << NewGoal("I must be able to perceive the file system.", <<"soma.perception.*">>),
       NewGoal("I must have a memory.", <<"soma.memory.*">>),
       NewGoal("I must have a visual dashboard.", <<"soma.interface.*">>) >>

create_tabula_rasa ==
    [system_version |-> "1.0.0",
     system_name    |-> "SEAA-TabulaRasa",
     blueprint      |-> << >>,
     goals          |-> DefaultGoals,
     active_modules |-> << >>,
     failures       |-> << >>,
     metadata       |-> DNAMetadata0]

-----------------------------------------------------------------------------

mark_active(d, name, t) ==
    [d EXCEPT !.active_modules =
                  IF \E i \in 1..Len(@) : @[i] = name THEN @ ELSE Append(@, name),
              !.metadata.total_evolutions = @ + 1,
              !.metadata.last_successful_organ = Some(name),
              !.metadata.last_modified = isoformatZ(t)]

IsActive(d, name) == \E i \in 1..Len(d.active_modules) : d.active_modules[i] = name

mark_inactive(d, name) ==
    LET keep(m) == m # name IN
    [d EXCEPT !.active_modules = SelectSeq(@, keep)]

NewBlueprint(name, description, dependencies) ==
    [name         |-> name,
     description  |-> description,
     dependencies |-> dependencies,
     version      |-> 1]

add_blueprint(d, name, description, dependencies) ==
    IF name \in DOMAIN d.blueprint
    THEN [d EXCEPT !.blueprint[name].description = description,
                   !.blueprint[name].version = @ + 1,
                   !.blueprint[name].dependencies =
                       IF dependencies # << >> THEN dependencies ELSE @]
    ELSE [d EXCEPT !.blueprint =
              [n \in (DOMAIN @) \cup {name} |->
                  IF n = name THEN NewBlueprint(name, description, dependencies)
                  ELSE @[n]]]

-----------------------------------------------------------------------------
(* Serialization: to_dict / from_dict and the JSON text.  A FailureType    *)
(* member is written as its value; a document is the pair <<"json", dict>>,*)
(* bytes that are no JSON document are <<"garbage">>.                      *)

FailureTypeValue(k) ==
    CASE k = "IMPORT" -> "import"
      [] k = "VALIDATION" -> "validation"
      [] k = "RUNTIME" -> "runtime"
      [] k = "GENERATION" -> "generation"
      [] k = "MATERIALIZATION" -> "materialization"
      [] OTHER -> k

FailureTypeOf(v) ==
    IF \E k \in FailureType : FailureTypeValue(k) = v
    THEN CHOOSE k \in FailureType : FailureTypeValue(k) = v
    ELSE "RUNTIME"

Failure_to_dict(f) ==
    [module_name       |-> f.module_name,
     error_type        |-> FailureTypeValue(f.error_type),
     error_message     |-> f.error_message,
     attempt_count     |-> f.attempt_count,
     context           |-> f.context,
     circuit_open      |-> f.circuit_open,
     circuit_opened_at |-> f.circuit_opened_at]

\* from_dict that does not read the circuit fields back
Failure_from_dict_closed(data) ==
    [module_name       |-> data.module_name,
     error_type        |-> FailureTypeOf(data.error_type),
     error_message     |-> data.error_message,
     attempt_count     |-> data.attempt_count,
     context           |-> data.context,
     circuit_open      |-> FALSE,
     circuit_opened_at |-> None]

Failure_from_dict(data) ==
    [module_name       |-> data.module_name,
     error_type        |-> FailureTypeOf(data.error_type),
     error_message     |-> data.error_message,
     attempt_count     |-> data.attempt_count,
     context           |-> data.context,
     circuit_open      |-> data.circuit_open,
     circuit_opened_at |-> data.circuit_opened_at]

OrganBlueprint_to_dict(bp) ==
    [name         |-> bp.name,
     description  |-> bp.description,
     dependencies |-> bp.dependencies,
     version      |-> bp.version]

OrganBlueprint_from_dict(name, data) ==
    [name         |-> name,
     description  |-> data.description,
     dependencies |-> data.dependencies,
     version      |-> data.version]

Goal_to_dict(g) ==
    [description     |-> g.description,
     priority        |-> g.priority,
     satisfied       |-> g.satisfied,
     required_organs |-> g.required_organs]

Goal_from_dict(data) ==
    [description     |-> data.description,
     priority        |-> data.priority,
     satisfied       |-> data.satisfied,
     required_organs |-> data.required_organs]

DNAMetadata_to_dict(m) ==
    [last_modified         |-> m.last_modified,
     total_evolutions      |-> m.total_evolutions,
     total_failures        |-> m.total_failures,
     last_successful_organ |-> m.last_successful_organ]

DNAMetadata_from_dict(data) ==
    [last_modified         |-> data.last_modified,
     total_evolutions      |-> data.total_evolutions,
     total_failures        |-> data.total_failures,
     last_successful_organ |-> data.last_successful_organ]

to_dict(d) ==
    [system_version |-> d.system_version,
     system_name    |-> d.system_name,
     blueprint      |-> [n \in DOMAIN d.blueprint |-> OrganBlueprint_to_dict(d.blueprint[n])],
     goals          |-> [i \in 1..Len(d.goals) |-> Goal_to_dict(d.goals[i])],
     active_modules |-> d.active_modules,
     failures       |-> [i \in 1..Len(d.failures) |-> Failure_to_dict(d.failures[i])],
     metadata       |-> DNAMetadata_to_dict(d.metadata)]

from_dict(data) ==
    [system_version |-> data.system_version,
     system_name    |-> data.system_name,
     blueprint      |-> [n \in DOMAIN data.blueprint |->
                            OrganBlueprint_from_dict(n, data.blueprint[n])],
     goals          |-> [i \in 1..Len(data.goals) |-> Goal_from_dict(data.goals[i])],
     active_modules |-> data.active_modules,
     failures       |-> [i \in 1..Len(data.failures) |->
                            Failure_from_dict(data.failures[i])],
     metadata       |-> DNAMetadata_from_dict(data.metadata)]

json_dumps(doc) == <<"json", doc>>

Garbage == <<"garbage">>

\* json.loads: the document, or None for a JSONDecodeError
json_loads(bytes) == IF bytes[1] = "json" THEN Some(bytes[2]) ELSE None

-----------------------------------------------------------------------------
(* DNARepository.  SHA-256 is taken to be free of collisions: the digest   *)
(* of some bytes is the pair <<"sha256", bytes>>.  File writes succeed.    *)

MaxBackups == 10

_compute_hash(content) == <<"sha256", content>>

Disk0 == [dna |-> None, dna_readable |-> TRUE, hash |-> None, hash_readable |-> TRUE]

\* bytes that are a JSON document but not a JSON object, so that
\* DNA.from_dict raises on them
JsonList == <<"json_list">>

\* what load() gives back: the exception it raises or "ok" with the genome
NoLoad == [status |-> "none", dna |-> None, bytes |-> None, compared |-> FALSE]

Loaded0 == [status |-> "none", returned |-> FALSE, same |-> FALSE, sealed |-> FALSE,
            pristine |-> FALSE, compared |-> FALSE]

\* [ok, compared]: what _verify_hash returns, and whether it compared the
\* bytes with a stored digest at all
_verify_hash(dk, content) ==
    IF dk.hash = None
    THEN [ok |-> TRUE, compared |-> FALSE]
    ELSE IF ~dk.hash_readable
         THEN [ok |-> TRUE, compared |-> FALSE]
         ELSE [ok |-> dk.hash[1] = _compute_hash(content), compared |-> TRUE]

_save_hash(dk, content_hash) ==
    [dk EXCEPT !.hash = Some(content_hash), !.hash_readable = TRUE]

load(dk, verify) ==
    IF dk.dna = None
    THEN [NoLoad EXCEPT !.status = "DNANotFoundError"]
    ELSE LET raw == dk.dna[1]
             v   == _verify_hash(dk, raw)
             j   == json_loads(raw)
         IN  IF ~dk.dna_readable
             THEN [NoLoad EXCEPT !.status = "DNACorruptedError"]
             ELSE IF verify /\ ~v.ok
             THEN [NoLoad EXCEPT !.status = "DNACorruptedError", !.bytes = Some(raw),
                                  !.compared = v.compared]
             ELSE IF raw = JsonList
             THEN [NoLoad EXCEPT !.status = "DNAValidationError", !.bytes = Some(raw)]
             ELSE IF j = None
                  THEN [NoLoad EXCEPT !.status = "DNACorruptedError",
                                      !.bytes = Some(raw)]
                  ELSE [status   |-> "ok",
                        dna      |-> Some(from_dict(j[1])),
                        bytes    |-> Some(raw),
                        compared |-> verify /\ v.compared]

\* the oldest backups beyond max_backups are removed
_prune_backups(bk) ==
    LET names == DOMAIN bk
        kept  == {t \in names : Cardinality({u \in names : u > t}) < MaxBackups}
    IN  [t \in kept |-> bk[t]]

_create_backup(bk, dk, t) ==
    _prune_backups([u \in (DOMAIN bk) \cup {t} |-> IF u = t THEN dk.dna[1] ELSE bk[u]])

\* save: [dna, disk, backups] after the call
save(d, dk, bk, verify, t) ==
    LET d2      == [d EXCEPT !.metadata.last_modified = isoformatZ(t)]
        content == json_dumps(to_dict(d2))
        dk2     == [dk EXCEPT !.dna = Some(content), !.dna_readable = TRUE]
    IN  [dna     |-> d2,
         bytes   |-> content,
         backups |-> IF dk.dna # None THEN _create_backup(bk, dk, t) ELSE bk,
         disk    |-> IF verify THEN _save_hash(dk2, _compute_hash(content)) ELSE dk2]

\* load_or_create that starts afresh whenever load raises
load_or_create_recovers(dk, bk, verify, t) ==
    LET r == load(dk, verify) IN
    IF r.status # "ok"
    THEN LET s == save(create_tabula_rasa, dk, bk, verify, t)
         IN  [dna |-> Some(s.dna), disk |-> s.disk, backups |-> s.backups]
    ELSE [dna |-> r.dna, disk |-> dk, backups |-> bk]

\* load_or_create: [dna, disk, backups]; dna is None when load raises
\* anything but DNANotFoundError
load_or_create(dk, bk, verify, t) ==
    LET r == load(dk, verify) IN
    IF r.status = "DNANotFoundError"
    THEN LET s == save(create_tabula_rasa, dk, bk, verify, t)
         IN  [dna |-> Some(s.dna), disk |-> s.disk, backups |-> s.backups]
    ELSE [dna |-> r.dna, disk |-> dk, backups |-> bk]

recalculate_integrity_hash(dk) ==
    IF dk.dna = None THEN dk ELSE _save_hash(dk, _compute_hash(dk.dna[1]))


-----------------------------------------------------------------------------
(* EventBus.  An event is [id, topic]: the id stands for the identity of   *)
(* the Event object.  The async queue holds events and the sentinel that   *)
(* stop_worker puts.  The queue's capacity (1000 in the code) and the      *)
(* length of the retention buffer (100 by default) are scaled down.        *)
(* The bus record also keeps two histories for the properties:             *)
(*   published  the events publish() was called with, in order             *)
(*   accepted   the events publish_async put on the queue, in order        *)
(* publish gives [b, invoked, escaped]: the bus afterwards, the handler    *)
(* invocations it made, in order, and whether it raised to its caller.     *)
(* A handler that raises raises an Exception, as the callbacks of organs   *)
(* do; `raising` is the set of handlers that raise when they are called.   *)

MaxQueue == 1
MaxRetained == 1
MaxEvents == 2
MaxListeners == 2

Topics == {"organ.evolved", "organ.failed"}
Handlers == {"h1", "h2"}
WorkerIds == {1, 2}

Event(id, topic) == [id |-> id, topic |-> topic]

Sentinel == [id |-> 0, topic |-> "None"]

Stopper0 == [pc |-> "idle", drain |-> FALSE, timed_out |-> FALSE, pending |-> {}]

Bus0 ==
    [subscribers   |-> [t \in Topics |-> << >>],
     queue         |-> << >>,
     maxsize       |-> MaxQueue,
     running       |-> FALSE,
     worker_thread |-> 0,
     workers       |-> [w \in WorkerIds |-> [pc |-> "dead", ev |-> Sentinel]],
     max_retained  |-> MaxRetained,
     retained      |-> << >>,
     stopper       |-> Stopper0,
     next_id       |-> 1,
     published     |-> << >>,
     accepted      |-> << >>]

\* collections.deque(maxlen=n).append
deque_append(q, x, maxlen) ==
    IF maxlen = 0 THEN q
    ELSE IF Len(q) >= maxlen THEN Append(Tail(q), x)
    ELSE Append(q, x)

\* list.remove: the first occurrence goes
list_remove(s, x) ==
    LET i == CHOOSE k \in 1..Len(s) : s[k] = x /\ \A j \in 1..(k - 1) : s[j] # x
    IN  [k \in 1..(Len(s) - 1) |-> IF k < i THEN s[k] ELSE s[k + 1]]

subscribe(b, event_type, callback) ==
    [b EXCEPT !.subscribers[event_type] = Append(@, callback)]

unsubscribe(b, event_type, callback) ==
    IF \E k \in 1..Len(b.subscribers[event_type]) : b.subscribers[event_type][k] = callback
    THEN [b EXCEPT !.subscribers[event_type] = list_remove(@, callback)]
    ELSE b

\* the invocations of the listeners, each of which returns or raises
Invocations(event, listeners, raising, upto) ==
    [i \in 1..upto |-> [ev |-> event.id, h |-> listeners[i],
                        raised |-> listeners[i] \in raising]]

\* publish whose loop is ended by the first handler that raises
publish_uncaught(b, event, raising) ==
    LET listeners == b.subscribers[event.topic]
        bad       == {i \in 1..Len(listeners) : listeners[i] \in raising}
        upto      == IF bad = {} THEN Len(listeners)
                     ELSE CHOOSE i \in bad : \A j \in bad : i <= j
    IN  [b       |-> [b EXCEPT !.retained  = IF b.max_retained > 0
                                             THEN deque_append(@, event, b.max_retained) ELSE @,
                               !.published = Append(@, event.id)],
         invoked |-> Invocations(event, listeners, raising, upto),
         escaped |-> bad # {}]

\* publish that calls the listeners last registered first
publish_reversed(b, event, raising) ==
    LET listeners == b.subscribers[event.topic]
        rev       == [i \in 1..Len(listeners) |-> listeners[Len(listeners) + 1 - i]]
    IN  [b       |-> [b EXCEPT !.retained  = IF b.max_retained > 0
                                             THEN deque_append(@, event, b.max_retained) ELSE @,
                               !.published = Append(@, event.id)],
         invoked |-> Invocations(event, rev, raising, Len(rev)),
         escaped |-> FALSE]

\* publish that retains an event only while the buffer has room
publish_keeps_oldest(b, event, raising) ==
    LET listeners == b.subscribers[event.topic]
    IN  [b       |-> [b EXCEPT !.retained  = IF Len(@) < b.max_retained THEN Append(@, event) ELSE @,
                               !.published = Append(@, event.id)],
         invoked |-> Invocations(event, listeners, raising, Len(listeners)),
         escaped |-> FALSE]

\* publish: the event is retained, then every listener of its topic is
\* called in turn; `raising` are the handlers that raise
publish(b, event, raising) ==
    LET listeners == b.subscribers[event.topic]
    IN  [b       |-> [b EXCEPT !.retained  = IF b.max_retained > 0
                                             THEN deque_append(@, event, b.max_retained) ELSE @,
                               !.published = Append(@, event.id)],
         invoked |-> Invocations(event, listeners, raising, Len(listeners)),
         escaped |-> FALSE]

\* publish_async that makes room by dropping the oldest queued event
publish_async_drops_oldest(b, event) ==
    IF Len(b.queue) < b.maxsize
    THEN [b EXCEPT !.queue = Append(@, event), !.accepted = Append(@, event.id)]
    ELSE [b EXCEPT !.queue = Append(Tail(@), event), !.accepted = Append(@, event.id)]

\* publish_async: put_nowait, and a full queue drops the event
publish_async(b, event) ==
    IF Len(b.queue) < b.maxsize
    THEN [b EXCEPT !.queue = Append(@, event), !.accepted = Append(@, event.id)]
    ELSE b

-----------------------------------------------------------------------------
(* The deployment directory and its history.  A module name is spelled as  *)
(* its sequence of segments and separators.  A file is named by the        *)
(* directories above it (from the root directory down), its stem and its   *)
(* suffix.  The `soma` record holds the directories that exist, the        *)
(* content of every file, and the snapshots Genealogy has committed of the *)
(* files below soma/, oldest first: the last one is HEAD.                  *)

\* str.startswith, on spellings
startswith(s, prefix) ==
    Len(prefix) <= Len(s) /\ SubSeq(s, 1, Len(prefix)) = prefix

\* the module names the Materializer is given
ModuleSpell ==
    ("soma.perception.fswatch" :> <<"soma", ".", "perception", ".", "fswatch">>)
    @@ ("soma.memory.journal" :> <<"soma", ".", "memory", ".", "journal">>)
    @@ ("seaa.kernel.bus" :> <<"seaa", ".", "kernel", ".", "bus">>)
    @@ ("seaa/kernel/bus" :> <<"seaa", "/", "kernel", "/", "bus">>)
    @@ ("seaa.memory.journal" :> <<"seaa", ".", "memory", ".", "journal">>)
    @@ ("other.module" :> <<"other", ".", "module">>)
    @@ ("Soma.memory.journal" :> <<"Soma", ".", "memory", ".", "journal">>)
    @@ ("soma" :> <<"soma">>)
    @@ ("soma..journal" :> <<"soma", ".", ".", "journal">>)
    @@ ("soma.memory.journal<newline>" :>
            <<"soma", ".", "memory", ".", "journal", "<newline>">>)
    @@ ("" :> << >>)

ModuleNames == DOMAIN ModuleSpell

\* the segments used that match [a-z_][a-z0-9_]* when case is ignored
Identifiers ==
    {"soma", "Soma", "seaa", "other", "perception", "memory", "kernel", "bus",
     "module", "fswatch", "journal"}

\* str.lower, on the segments used
lower(segment) == IF segment = "Soma" THEN "soma" ELSE segment

RECURSIVE DottedIdentifiers(_)
\* (\.[a-z_][a-z0-9_]*)* matches the whole of s
DottedIdentifiers(s) ==
    \/ s = << >>
    \/ /\ Len(s) >= 2
       /\ s[1] = "."
       /\ s[2] \in Identifiers
       /\ DottedIdentifiers(SubSeq(s, 3, Len(s)))

\* MODULE_NAME_PATTERN.match: ^soma(\.[a-z_][a-z0-9_]*)+$ with re.IGNORECASE;
\* "$" matches at the end and before a newline that ends the string
MODULE_NAME_PATTERN_match(s) ==
    LET body == IF s # << >> /\ s[Len(s)] = "<newline>"
                THEN SubSeq(s, 1, Len(s) - 1) ELSE s
    IN  /\ Len(body) >= 3
        /\ lower(body[1]) = "soma"
        /\ DottedIdentifiers(Tail(body))

RECURSIVE split(_)
\* str.split("."): the parts, each the sequence of its tokens
split(s) ==
    IF \A i \in 1..Len(s) : s[i] # "." THEN <<s>>
    ELSE LET i == CHOOSE k \in 1..Len(s) : s[k] = "." /\ \A j \in 1..(k - 1) : s[j] # "."
         IN  <<SubSeq(s, 1, i - 1)>> \o split(SubSeq(s, i + 1, Len(s)))

\* str.isidentifier, and isalpha of a part stripped of "_" and digits
isidentifier(part) == Len(part) = 1 /\ part[1] \in Identifiers

isalpha_stripped(part) == Len(part) = 1 /\ part[1] \in Identifiers

\* the exception _validate_module_name raises, or "none"
_validate_module_name(s) ==
    IF s = << >> THEN "MaterializationError"
    ELSE IF ~MODULE_NAME_PATTERN_match(s) THEN "MaterializationError"
    ELSE IF \E i \in 1..(Len(s) - 1) : s[i] = "." /\ s[i + 1] = "."
    THEN "MaterializationError"
    ELSE IF \E k \in 1..Len(split(s)) :
                LET part == split(s)[k]
                IN  (part = << >> \/ ~isalpha_stripped(part)) /\ ~isidentifier(part)
    THEN "MaterializationError"
    ELSE "none"

\* config.security.protected_prefixes
protected_prefixes == {<<"seaa", ".">>, <<"seaa", "/">>}

\* the exception _check_protection raises, or "none"
_check_protection(s) ==
    IF \E prefix \in protected_prefixes : startswith(s, prefix)
    THEN "KernelProtectionError"
    ELSE "none"

File(dir, stem, suffix) == [dir |-> dir, stem |-> stem, suffix |-> suffix]

\* _module_to_path of a validated name: root / soma / perception / fswatch.py
_module_to_path(s) ==
    LET parts == split(s)
    IN  File([k \in 1..(Len(parts) - 1) |-> parts[k][1]], parts[Len(parts)][1], "py")

\* _ensure_package_structure: mkdir(parents=True), and an __init__.py in
\* the directory and in every directory above it, the root included,
\* where there is none
_ensure_package_structure(fs, directory) ==
    LET above == {SubSeq(directory, 1, k) : k \in 0..Len(directory)}
        inits == {File(d, "__init__", "py") : d \in above}
    IN  [fs EXCEPT !.dirs = @ \cup above,
                   !.files = [p \in (DOMAIN @) \cup inits |->
                                 IF p \in DOMAIN @ THEN @[p] ELSE "package"]]

\* _atomic_write: the temporary file is written and renamed over the path
_atomic_write(fs, path, content) ==
    [fs EXCEPT !.files = [p \in (DOMAIN @) \cup {path} |->
                             IF p = path THEN content ELSE @[p]]]

\* Materializer.materialize: [fs, raised, path]
materialize(fs, module_name, code) ==
    LET s == ModuleSpell[module_name] IN
    IF _validate_module_name(s) # "none"
    THEN [fs |-> fs, raised |-> _validate_module_name(s), path |-> None]
    ELSE IF _check_protection(s) # "none"
    THEN [fs |-> fs, raised |-> _check_protection(s), path |-> None]
    ELSE IF ~startswith(s, <<"soma", ".">>)
    THEN [fs |-> fs, raised |-> "MaterializationError", path |-> None]
    ELSE [fs |-> _atomic_write(_ensure_package_structure(fs, _module_to_path(s).dir),
                               _module_to_path(s), code),
          raised |-> "none", path |-> Some(_module_to_path(s))]

\* the files below config.paths.soma, which the repository sees
soma_path == <<"soma">>

Tree(fs) == [p \in {q \in DOMAIN fs.files : startswith(q.dir, soma_path)} |-> fs.files[p]]

HEAD(fs) == fs.commits[Len(fs.commits)]

\* Genealogy.init_repo where there is no repository yet: README.md and the
\* first commit, of all there is below soma/
init_repo(fs) ==
    IF ~fs.enabled THEN fs
    ELSE LET readme == File(soma_path, "README", "md")
             f1 == [fs EXCEPT !.dirs = @ \cup {<< >>, soma_path},
                              !.files = [p \in (DOMAIN @) \cup {readme} |->
                                            IF p \in DOMAIN @ THEN @[p] ELSE "readme"]]
         IN  [f1 EXCEPT !.commits = <<Tree(f1)>>]

\* Genealogy.commit: [fs, value]; nothing to commit gives False
commit(fs, message) ==
    IF ~fs.enabled THEN [fs |-> fs, value |-> FALSE]
    ELSE IF Tree(fs) = HEAD(fs) THEN [fs |-> fs, value |-> FALSE]
    ELSE [fs |-> [fs EXCEPT !.commits = Append(@, Tree(fs))], value |-> TRUE]

\* git reset --hard HEAD^: the tracked files are made those of the commit
\* before HEAD, the files HEAD added are deleted with the directories they
\* leave empty, and the untracked files stay
reset_hard_parent(fs) ==
    LET head  == HEAD(fs)
        prev  == fs.commits[Len(fs.commits) - 1]
        files == [p \in ((DOMAIN fs.files) \ (DOMAIN head)) \cup (DOMAIN prev) |->
                     IF p \in DOMAIN prev THEN prev[p] ELSE fs.files[p]]
        emptied(d) == /\ Len(d) > Len(soma_path)
                      /\ \E p \in DOMAIN head : startswith(p.dir, d)
                      /\ ~\E p \in DOMAIN files : startswith(p.dir, d)
    IN  [fs EXCEPT !.files = files,
                   !.dirs = {d \in @ : ~emptied(d)},
                   !.commits = SubSeq(@, 1, Len(@) - 1)]

\* Genealogy.revert_last that resets to HEAD itself
revert_last_to_head(fs) ==
    IF ~fs.enabled THEN [fs |-> fs, value |-> FALSE]
    ELSE [fs |-> fs, value |-> TRUE]

\* Genealogy.revert_last: [fs, value]; git fails where HEAD has no parent
revert_last(fs) ==
    IF ~fs.enabled THEN [fs |-> fs, value |-> FALSE]
    ELSE IF Len(fs.commits) < 2 THEN [fs |-> fs, value |-> FALSE]
    ELSE [fs |-> reset_hard_parent(fs), value |-> TRUE]

\* the directory before anything was deployed, and after Genesis.__init__
NoSoma == [enabled |-> TRUE, dirs |-> {<< >>}, files |-> << >>, commits |-> << >>]

Soma0 == init_repo(NoSoma)

\* ... and as an earlier run that evolved one unit left it, with
\* config.genealogy.enabled as given
Deployed(enabled, name) ==
    commit(materialize(init_repo([NoSoma EXCEPT !.enabled = enabled]), name, "code").fs,
           "Evolved").fs

-----------------------------------------------------------------------------
(* A save() taken step by step.  The io record holds the position of the   *)
(* saving thread, the bytes it is writing, the temporary file, the genome  *)
(* file as it was when the save began, and what a reader of the genome     *)
(* path last read.  A file being written holds <<"partial", k>>: its first *)
(* k chunks.                                                               *)

\* no step of the control thread in progress, no unit thread
Threads0 == [control |-> [pc |-> "idle", name |-> "", seen |-> 0],
             organ |-> [n \in Names |-> [pc |-> "none", found |-> 0, reports |-> 0]]]

Io0 == [pc |-> "idle", content |-> None, tmp |-> None, prev |-> None,
        observed |-> None, saves |-> 0]

(* Genesis, the object: the phase awaken() is in, the _running flag, the   *)
(* iterations _evolution_cycle has made, and the caps of config.metabolism *)
(* it reads.  `stop` records that a stop signal was delivered.             *)

max_concurrent_organs == 20
max_organs_per_cycle == 3

Genesis0 == [phase |-> "constructed", _running |-> FALSE, stop |-> FALSE,
             iteration |-> 0,
             max_concurrent_organs |-> max_concurrent_organs,
             max_organs_per_cycle |-> max_organs_per_cycle]

-----------------------------------------------------------------------------
(* History kept for the properties:                                        *)
(*   adds     add_failure calls for the unit since it last had no record   *)
(*            or was reset                                                 *)
(*   healed   should_attempt closed the unit's circuit after the cooldown  *)
(*            and since then no failure was recorded and no other call     *)
(*            touched the circuit                                          *)
(* and, by the orchestrator's steps,                                       *)
(*   fails    failures of the unit (one failed generation, materialization,*)
(*            activation or crash) since its last successful evolution     *)
(*   opened   the unit's circuit has been open since that evolution        *)
(*   won      the unit has been evolved successfully at least once         *)

Track0 ==
    [n \in Names |-> [adds |-> 0, healed |-> FALSE, fails |-> 0, opened |-> FALSE,
                     won |-> FALSE]]

\* how a should_attempt call finds the unit's circuit
Was(d, name, t, cooldown, healed) ==
    IF ~HasRecord(d, name) THEN "norecord"
    ELSE LET f == Record(d, name) IN
         IF f.circuit_open
         THEN IF f.circuit_opened_at # None /\ Elapsed(f, t) >= cooldown
              THEN "cooled" ELSE "cooling"
         ELSE IF healed THEN "healed" ELSE "closed"

AttemptCount(d, name) == IF HasRecord(d, name) THEN Record(d, name).attempt_count ELSE 0

Ret0 == [op |-> "none", name |-> "", value |-> TRUE, was |-> "none"]

-----------------------------------------------------------------------------
(* The ledger's operations, each as one step *)

\* the state after construction, t minutes after the genome was created
InitAt(t) ==
    /\ dna = create_tabula_rasa
    /\ now = t
    /\ ret = Ret0
    /\ track = Track0
    /\ disk = Disk0
    /\ backups = << >>
    /\ verify_integrity = TRUE
    /\ loaded = Loaded0
    /\ seal = None
    /\ running_organs = {}
    /\ max_total_organs = MaxTotalOrgans
    /\ bus = Bus0
    /\ io = Io0
    /\ threads = Threads0
    /\ genesis = Genesis0
    /\ soma = Soma0

Init ==
    /\ InitAt(0)
    /\ max_attempts \in 1..MaxAttempts
    /\ cooldown_minutes \in 1..MaxCooldown

Tick ==
    /\ now < MaxTime
    /\ now' = now + 1
    /\ ret' = Ret0
    /\ UNCHANGED <<dna, max_attempts, cooldown_minutes, track>>
    /\ UNCHANGED storeVars
    /\ UNCHANGED <<genesisVars, auxVars>>

AddFailure(name, kind, msg) ==
    /\ AttemptCount(dna, name) < MaxCount
    /\ HasRecord(dna, name) \/ dna.metadata.total_failures < MaxTotalFailures
    /\ dna' = add_failure(dna, name, kind, msg)
    /\ ret' = Ret0
    /\ track' = [track EXCEPT ![name].adds = @ + 1, ![name].healed = FALSE]
    /\ UNCHANGED <<now, max_attempts, cooldown_minutes>>
    /\ UNCHANGED storeVars
    /\ UNCHANGED <<genesisVars, auxVars>>

ClearFailure(name) ==
    /\ dna' = clear_failure(dna, name)
    /\ ret' = Ret0
    /\ track' = [track EXCEPT ![name] = Track0[name]]
    /\ UNCHANGED <<now, max_attempts, cooldown_minutes>>
    /\ UNCHANGED storeVars
    /\ UNCHANGED <<genesisVars, auxVars>>

ShouldAttempt(name) ==
    LET r == should_attempt(dna, name, max_attempts, cooldown_minutes, now)
        w == Was(dna, name, now, cooldown_minutes, track[name].healed)
    IN  /\ dna' = r.dna
        /\ ret' = [op |-> "should_attempt", name |-> name, value |-> r.value,
                   was |-> w]
        /\ track' = [track EXCEPT ![name].healed =
                        IF w = "cooled" THEN TRUE
                        ELSE IF is_circuit_open(r.dna, name) THEN FALSE ELSE @]
        /\ UNCHANGED <<now, max_attempts, cooldown_minutes>>
        /\ UNCHANGED storeVars
    /\ UNCHANGED <<genesisVars, auxVars>>

OpenCircuit(name) ==
    /\ dna' = open_circuit(dna, name, now)
    /\ ret' = Ret0
    /\ track' = [track EXCEPT ![name].healed = FALSE]
    /\ UNCHANGED <<now, max_attempts, cooldown_minutes>>
    /\ UNCHANGED storeVars
    /\ UNCHANGED <<genesisVars, auxVars>>

IsCircuitOpen(name) ==
    /\ ret' = [op |-> "is_circuit_open", name |-> name,
               value |-> is_circuit_open(dna, name), was |-> "none"]
    /\ UNCHANGED <<dna, now, max_attempts, cooldown_minutes, track>>
    /\ UNCHANGED storeVars
    /\ UNCHANGED <<genesisVars, auxVars>>

ResetCircuit(name) ==
    /\ dna' = reset_circuit(dna, name)
    /\ ret' = Ret0
    /\ track' = [track EXCEPT ![name] = Track0[name]]
    /\ UNCHANGED <<now, max_attempts, cooldown_minutes>>
    /\ UNCHANGED storeVars
    /\ UNCHANGED <<genesisVars, auxVars>>

NextLedger ==
    \/ Tick
    \/ \E n \in Names, m \in Messages : AddFailure(n, "RUNTIME", m)
    \/ \E n \in Names : ClearFailure(n)
    \/ \E n \in Names : ShouldAttempt(n)
    \/ \E n \in Names : OpenCircuit(n)
    \/ \E n \in Names : IsCircuitOpen(n)
    \/ \E n \in Names : ResetCircuit(n)

SpecLedger == Init /\ [][NextLedger]_vars

-----------------------------------------------------------------------------
(* The genome store: save, load, the administrative digest recalculation,  *)
(* and what the environment may do to the two files.  The genomes saved    *)
(* are those a few genome operations on one unit produce.                  *)

StoreName == "soma.perception.fswatch"

\* bytes an outside writer may leave in place of `bytes`: no document at
\* all, or a document with another active set
Alterations(bytes) ==
    {Garbage}
    \cup (IF bytes[1] = "json"
          THEN {json_dumps([bytes[2] EXCEPT !.active_modules =
                              IF @ = << >> THEN <<"soma.evil">> ELSE << >>])}
          ELSE {})

MarkActive(name) ==
    /\ ~IsActive(dna, name)
    /\ dna' = mark_active(dna, name, now)
    /\ ret' = Ret0
    /\ UNCHANGED <<now, max_attempts, cooldown_minutes, track>>
    /\ UNCHANGED storeVars
    /\ UNCHANGED <<genesisVars, auxVars>>

AddBlueprint(name, description, dependencies) ==
    /\ name \notin DOMAIN dna.blueprint
    /\ dna' = add_blueprint(dna, name, description, dependencies)
    /\ ret' = Ret0
    /\ UNCHANGED <<now, max_attempts, cooldown_minutes, track>>
    /\ UNCHANGED storeVars
    /\ UNCHANGED <<genesisVars, auxVars>>

FirstFailure(name, kind, msg) ==
    /\ ~HasRecord(dna, name)
    /\ AddFailure(name, kind, msg)

Save ==
    LET r == save(dna, disk, backups, verify_integrity, now) IN
    /\ dna' = r.dna
    /\ disk' = r.disk
    /\ backups' = r.backups
    /\ seal' = Some([dna |-> r.dna, bytes |-> r.bytes, pristine |-> TRUE,
                     digest |-> verify_integrity])
    /\ loaded' = Loaded0
    /\ ret' = Ret0
    /\ UNCHANGED <<now, max_attempts, cooldown_minutes, track, verify_integrity>>
    /\ UNCHANGED <<genesisVars, auxVars>>

\* load() and what it found, compared with the last save
Load ==
    LET r == load(disk, verify_integrity) IN
    /\ loaded' = [status   |-> r.status,
                  returned |-> r.dna # None,
                  same     |-> seal # None /\ r.dna = Some(seal[1].dna),
                  sealed   |-> seal # None /\ r.bytes = Some(seal[1].bytes),
                  pristine |-> seal # None /\ seal[1].pristine,
                  compared |-> r.compared]
    /\ ret' = Ret0
    /\ UNCHANGED <<dna, now, max_attempts, cooldown_minutes, track>>
    /\ UNCHANGED <<disk, backups, verify_integrity, seal>>
    /\ UNCHANGED <<genesisVars, auxVars>>

TamperGenome ==
    /\ disk.dna # None
    /\ \E alt \in Alterations(disk.dna[1]) : disk' = [disk EXCEPT !.dna = Some(alt)]
    /\ seal' = IF seal = None THEN seal ELSE Some([seal[1] EXCEPT !.pristine = FALSE])
    /\ loaded' = Loaded0
    /\ ret' = Ret0
    /\ UNCHANGED <<dna, now, max_attempts, cooldown_minutes, track>>
    /\ UNCHANGED <<backups, verify_integrity>>
    /\ UNCHANGED <<genesisVars, auxVars>>

DeleteHash ==
    /\ disk.hash # None
    /\ disk' = [disk EXCEPT !.hash = None]
    /\ seal' = IF seal = None THEN seal ELSE Some([seal[1] EXCEPT !.pristine = FALSE])
    /\ loaded' = Loaded0
    /\ ret' = Ret0
    /\ UNCHANGED <<dna, now, max_attempts, cooldown_minutes, track>>
    /\ UNCHANGED <<backups, verify_integrity>>
    /\ UNCHANGED <<genesisVars, auxVars>>

HashUnreadable ==
    /\ disk.hash # None /\ disk.hash_readable
    /\ disk' = [disk EXCEPT !.hash_readable = FALSE]
    /\ seal' = IF seal = None THEN seal ELSE Some([seal[1] EXCEPT !.pristine = FALSE])
    /\ loaded' = Loaded0
    /\ ret' = Ret0
    /\ UNCHANGED <<dna, now, max_attempts, cooldown_minutes, track>>
    /\ UNCHANGED <<backups, verify_integrity>>
    /\ UNCHANGED <<genesisVars, auxVars>>

RecalculateIntegrityHash ==
    /\ disk.dna # None
    /\ disk' = recalculate_integrity_hash(disk)
    /\ seal' = IF seal = None THEN seal
               ELSE Some([seal[1] EXCEPT !.pristine = FALSE, !.bytes = disk.dna[1]])
    /\ loaded' = Loaded0
    /\ ret' = Ret0
    /\ UNCHANGED <<dna, now, max_attempts, cooldown_minutes, track>>
    /\ UNCHANGED <<backups, verify_integrity>>
    /\ UNCHANGED <<genesisVars, auxVars>>

\* the store is exercised with one setting of the circuit breaker
InitStore ==
    /\ InitAt(1)
    /\ max_attempts = MaxAttempts
    /\ cooldown_minutes = MaxCooldown

NextStore ==
    \/ \E m \in Messages : FirstFailure(StoreName, "VALIDATION", m)
    \/ OpenCircuit(StoreName)
    \/ MarkActive(StoreName)
    \/ AddBlueprint(StoreName, "watch the file system", << >>)
    \/ Save
    \/ Load
    \/ TamperGenome
    \/ DeleteHash
    \/ HashUnreadable
    \/ RecalculateIntegrityHash

SpecStore == InitStore /\ [][NextStore]_vars

-----------------------------------------------------------------------------
(* Genesis, the orchestrator.  A "world" w is the record [dna, disk,       *)
(* backups] of what its handlers read and write: the genome in memory and  *)
(* the store.  What the Generator, the materializer, the import of a unit  *)
(* and a running unit do is an input of the step (`outcome`).              *)

MaxVersion == 2
MaxUptime == 1
MaxEvolutions == 3

GenerationOutcomes == {"code", "no_code", "raises"}
IntegrationOutcomes == {"started", "import", "validation", "runtime"}

World(d, dk, bk) == [dna |-> d, disk |-> dk, backups |-> bk, soma |-> soma]

_save_dna(w, t) ==
    LET r == save(w.dna, w.disk, w.backups, verify_integrity, t)
    IN  [w EXCEPT !.dna = r.dna, !.disk = r.disk, !.backups = r.backups]

_handle_failure_report(w, module_name, error_type, message, t) ==
    _save_dna([w EXCEPT !.dna = add_failure(@, module_name, error_type, message)], t)

_handle_blueprint_request(w, module_name, description, t) ==
    _save_dna([w EXCEPT !.dna = add_blueprint(@, module_name, description, << >>)], t)

\* a call trigger_revert makes, with the ledger as the call finds it
Call(name, w, organ_name) ==
    [call |-> name,
     count |-> IF HasRecord(w.dna, organ_name) THEN Record(w.dna, organ_name).attempt_count
               ELSE 0]

\* trigger_revert that rolls back first and reports the failure afterwards
trigger_revert_reverting_first(w, organ_name, reason, t) ==
    LET reported(w1, r) ==
            [w |-> _handle_failure_report(w1, organ_name, "RUNTIME",
                                          "Auto-Reverted due to critical failure", t),
             value |-> r.value,
             calls |-> <<Call("revert_last", w, organ_name),
                         Call("on_failure_report", w1, organ_name)>>]
        reverted(r) == reported([w EXCEPT !.soma = r.fs], r)
    IN  reverted(revert_last(w.soma))

\* Immunity.trigger_revert with a genealogy attached, [w, value, calls]:
\* the failure is reported to the orchestrator, then Genealogy.revert_last
\* rolls the deployment directory back
trigger_revert(w, organ_name, reason, t) ==
    LET reverted(w1, r) ==
            [w |-> [w1 EXCEPT !.soma = r.fs], value |-> r.value,
             calls |-> <<Call("on_failure_report", w, organ_name),
                         Call("revert_last", w1, organ_name)>>]
        reported(w1) == reverted(w1, revert_last(w1.soma))
    IN  reported(_handle_failure_report(w, organ_name, "RUNTIME",
                                        "Auto-Reverted due to critical failure", t))

\* Immunity.heal of an internal (soma.*) module: a blueprint is requested
heal(w, package_name, t) ==
    _handle_blueprint_request(w, package_name,
                              "Critical system component required by other organs.", t)

\* [w, revert]: the world afterwards and what trigger_revert did, if called
_handle_assimilation_failure(w, module_name, error_type, error_message, t) ==
    LET failure_type == IF error_type = "import" THEN "IMPORT"
                        ELSE IF error_type = "validation" THEN "VALIDATION"
                        ELSE "RUNTIME"
        immune(r) == [w |-> r.w, revert |-> Some([value |-> r.value, calls |-> r.calls])]
        saved(w1) ==
            IF failure_type \in {"VALIDATION", "IMPORT"}
            THEN immune(trigger_revert(w1, module_name, error_message, t))
            ELSE [w |-> w1, revert |-> None]
    IN  saved(_save_dna([w EXCEPT !.dna =
                  mark_inactive(add_failure(@, module_name, failure_type, error_message),
                                module_name)], t))

\* number of add_failure calls _handle_assimilation_failure makes
ReportsOf(error_type) == IF error_type \in {"import", "validation"} THEN 2 ELSE 1

\* Event("organ.evolved", data={"organ": organ_name}, source="genesis")
organ_evolved(organ_name) ==
    [event_type |-> "organ.evolved", organ |-> organ_name, source |-> "genesis"]

\* the try block of _evolve_organ once the Generator has given code:
\* materialize, mark_active, clear_failure, _save_dna, publish, and
\* genealogy.commit; a materialize that raises is recorded
deploy(w, name, code, t, gate, clear_all) ==
    LET m == materialize(w.soma, name, code) IN
    IF m.raised # "none"
    THEN [w |-> _save_dna([w EXCEPT !.dna = add_failure(@, name, "MATERIALIZATION",
                               "boom")], t),
          gate |-> gate, gen |-> TRUE, ok |-> FALSE, added |-> 1,
          written |-> {}, published |-> << >>]
    ELSE [w |-> [_save_dna([w EXCEPT
                     !.soma = m.fs,
                     !.dna = IF clear_all
                             THEN [mark_active(@, name, t) EXCEPT !.failures = << >>]
                             ELSE clear_failure(mark_active(@, name, t), name)], t)
                 EXCEPT !.soma = commit(@, "Evolved").fs],
          gate |-> gate, gen |-> TRUE, ok |-> TRUE, added |-> 0,
          written |-> {name}, published |-> <<organ_evolved(name)>>]

\* _evolve_organ that generates whatever the gate said
_evolve_organ_ungated(w, name, outcome, t) ==
    LET g  == should_attempt(w.dna, name, max_attempts, cooldown_minutes, t)
        w1 == [w EXCEPT !.dna = g.dna]
    IN  IF outcome = "no_code"
        THEN [w |-> _save_dna([w1 EXCEPT !.dna = add_failure(@, name, "GENERATION",
                                   "LLM failed to generate code")], t),
              gate |-> g.value, gen |-> TRUE, ok |-> FALSE, added |-> 1,
              written |-> {}, published |-> << >>]
        ELSE IF outcome = "raises"
        THEN [w |-> _save_dna([w1 EXCEPT !.dna = add_failure(@, name, "MATERIALIZATION",
                                   "boom")], t),
              gate |-> g.value, gen |-> TRUE, ok |-> FALSE, added |-> 1,
              written |-> {}, published |-> << >>]
        ELSE deploy(w1, name, outcome, t, g.value, FALSE)

\* _evolve_organ with one thing changed: no cap on the active set, no
\* record of a Generator that gave no code, or every failure record
\* cleared after a success
evolve_organ_variant(w, name, outcome, t, capped, recorded, clear_all) ==
    LET g    == should_attempt(w.dna, name, max_attempts, cooldown_minutes, t)
        w1   == [w EXCEPT !.dna = g.dna]
        skip == [w |-> w1, gate |-> g.value, gen |-> FALSE, ok |-> FALSE, added |-> 0,
                 written |-> {}, published |-> << >>]
    IN  IF ~g.value THEN skip
        ELSE IF capped /\ Len(w1.dna.active_modules) >= max_total_organs THEN skip
        ELSE IF outcome = "no_code"
        THEN [w |-> IF recorded
                    THEN _save_dna([w1 EXCEPT !.dna = add_failure(@, name, "GENERATION",
                                        "LLM failed to generate code")], t)
                    ELSE w1,
              gate |-> TRUE, gen |-> TRUE, ok |-> FALSE,
              added |-> IF recorded THEN 1 ELSE 0,
              written |-> {}, published |-> << >>]
        ELSE IF outcome = "raises"
        THEN [w |-> _save_dna([w1 EXCEPT !.dna = add_failure(@, name, "MATERIALIZATION",
                                   "boom")], t),
              gate |-> TRUE, gen |-> TRUE, ok |-> FALSE, added |-> 1,
              written |-> {}, published |-> << >>]
        ELSE deploy(w1, name, outcome, t, TRUE, clear_all)

_evolve_organ_uncapped(w, name, outcome, t) ==
    evolve_organ_variant(w, name, outcome, t, FALSE, TRUE, FALSE)

_evolve_organ_unrecorded(w, name, outcome, t) ==
    evolve_organ_variant(w, name, outcome, t, TRUE, FALSE, FALSE)

_evolve_organ_clears_all(w, name, outcome, t) ==
    evolve_organ_variant(w, name, outcome, t, TRUE, TRUE, TRUE)

\* [w, gate, gen, ok, added, written, published]: the world afterwards,
\* what should_attempt returned, whether the Generator was invoked, the
\* return value, the number of add_failure calls made, the unit files the
\* materializer wrote and the events published
_evolve_organ(w, name, outcome, t) ==
    LET g    == should_attempt(w.dna, name, max_attempts, cooldown_minutes, t)
        w1   == [w EXCEPT !.dna = g.dna]
        skip == [w |-> w1, gate |-> g.value, gen |-> FALSE, ok |-> FALSE, added |-> 0,
                 written |-> {}, published |-> << >>]
    IN  IF ~g.value THEN skip
        ELSE IF Len(w1.dna.active_modules) >= max_total_organs THEN skip
        ELSE IF outcome = "no_code"
        THEN [w |-> _save_dna([w1 EXCEPT !.dna = add_failure(@, name, "GENERATION",
                                   "LLM failed to generate code")], t),
              gate |-> TRUE, gen |-> TRUE, ok |-> FALSE, added |-> 1,
              written |-> {}, published |-> << >>]
        ELSE IF outcome = "raises"
        THEN [w |-> _save_dna([w1 EXCEPT !.dna = add_failure(@, name, "MATERIALIZATION",
                                   "boom")], t),
              gate |-> TRUE, gen |-> TRUE, ok |-> FALSE, added |-> 1,
              written |-> {}, published |-> << >>]
        ELSE deploy(w1, name, outcome, t, TRUE, FALSE)

\* Assimilator.integrate: [w, running, raised, revert]
integrate(w, run, module_name, outcome, t) ==
    LET failed(h) ==
            [w       |-> h.w,
             running |-> run,
             raised  |-> IF outcome = "import" THEN "ImportFailedError"
                         ELSE IF outcome = "validation" THEN "ValidationFailedError"
                         ELSE "ActivationFailedError",
             revert  |-> h.revert]
    IN  IF module_name \in run
        THEN [w |-> w, running |-> run, raised |-> "none", revert |-> None]
        ELSE IF outcome = "started"
        THEN [w |-> w, running |-> run \cup {module_name}, raised |-> "none",
              revert |-> None]
        ELSE failed(_handle_assimilation_failure(w, module_name, outcome, "boom", t))

\* Assimilator._handle_organ_error: [w, running]
_handle_organ_error(w, run, module_name, t) ==
    [w       |-> _handle_assimilation_failure(w, module_name, "runtime", "boom", t).w,
     running |-> run \ {module_name}]

get_pending_blueprints(d) == {n \in DOMAIN d.blueprint : ~IsActive(d, n)}

\* the genome the orchestrator is started with: the Architect has designed
\* one unit for the memory goal, which was evolved by an earlier run, and
\* one for the perception goal, which is pending
Genome0 ==
    mark_active(add_blueprint(
        add_blueprint(create_tabula_rasa, "soma.perception.fswatch",
                      "watch the file system", << >>),
        "soma.memory.journal", "keep a journal", << >>), "soma.memory.journal", 0)

\* the model's bounds on the genome's counters
MayFail(d, name) ==
    /\ AttemptCount(d, name) < MaxCount
    /\ HasRecord(d, name) \/ d.metadata.total_failures < MaxTotalFailures

MayEvolve(d) == d.metadata.total_evolutions < MaxEvolutions

\* the history of unit `name` after _evolve_organ returned r
TrackEvolved(trn, name, r, w) ==
    IF r.ok THEN [Track0[name] EXCEPT !.won = TRUE]
    ELSE [trn EXCEPT !.adds   = @ + r.added,
                     !.fails  = @ + r.added,
                     !.healed = IF r.added > 0 \/ is_circuit_open(r.w.dna, name)
                                THEN FALSE
                                ELSE IF w = "cooled" THEN TRUE ELSE @,
                     !.opened = @ \/ is_circuit_open(r.w.dna, name)]

\* ... and after one activation failure or crash
TrackFailed(trn, error_type) ==
    [trn EXCEPT !.adds = @ + ReportsOf(error_type), !.fails = @ + 1,
                !.healed = FALSE]

\* the seal of the store after a step that may have saved
Sealed(w) ==
    IF w.disk = disk THEN seal
    ELSE Some([dna |-> w.dna, bytes |-> w.disk.dna[1], pristine |-> TRUE,
               digest |-> verify_integrity])

Commit(w) ==
    /\ dna' = w.dna
    /\ disk' = w.disk
    /\ backups' = w.backups
    /\ seal' = Sealed(w)
    /\ soma' = w.soma
    /\ UNCHANGED <<now, max_attempts, cooldown_minutes, verify_integrity, loaded,
                   max_total_organs>>
    /\ UNCHANGED auxVars

\* what a step of the orchestrator on unit `name` did: r is what
\* _evolve_organ returned, `integrated` the outcome of the activation,
\* `revert` what trigger_revert did if the activation led to it
Did(op, name, r, w, integrated, revert) ==
    [op |-> op, name |-> name, value |-> r.gate, was |-> w,
     gen |-> r.gen, ok |-> r.ok, added |-> r.added,
     count |-> AttemptCount(dna, name), fails |-> track[name].fails,
     opened |-> track[name].opened, integrated |-> integrated, revert |-> revert]

NoEvolve == [gate |-> TRUE, gen |-> FALSE, ok |-> FALSE, added |-> 0]

\* awaken, _evolution_cycle: one pending unit is evolved
EvolveOrgan(name, outcome) ==
    /\ name \in get_pending_blueprints(dna)
    /\ outcome = "code" => MayEvolve(dna)
    /\ outcome # "code" => MayFail(dna, name)
    /\ LET r == _evolve_organ(World(dna, disk, backups), name, outcome, now)
           w == Was(dna, name, now, cooldown_minutes, track[name].healed)
       IN  /\ Commit(r.w)
           /\ ret' = Did("evolve", name, r, w, "none", None)
           /\ track' = [track EXCEPT ![name] = TrackEvolved(@, name, r, w)]
           /\ UNCHANGED running_organs

\* awaken, _assimilate_all: one active unit that is not running is
\* integrated; an import failure is handed to Immunity.heal
Assimilate(name, outcome) ==
    /\ IsActive(dna, name) /\ name \notin running_organs
    /\ Cardinality(running_organs) < max_concurrent_organs
    /\ outcome # "started" => MayFail(dna, name)
    /\ outcome = "import" => dna.blueprint[name].version < MaxVersion
    /\ LET i  == integrate(World(dna, disk, backups), running_organs, name, outcome, now)
           w2 == IF i.raised = "ImportFailedError" THEN heal(i.w, name, now) ELSE i.w
       IN  /\ Commit(w2)
           /\ running_organs' = i.running
           /\ ret' = Did("assimilate", name, NoEvolve, "none", outcome, i.revert)
           /\ track' = IF outcome = "started" THEN track
                       ELSE [track EXCEPT ![name] = TrackFailed(@, outcome)]

\* _live: one pending unit is evolved and, if that succeeded, integrated
\* at once; an AssimilationError is passed over.  (The activation is an
\* input only when there is code to activate.)
LiveCycle(name, outcome, activation) ==
    /\ name \in get_pending_blueprints(dna)
    /\ outcome # "code" => activation = "started"
    /\ outcome = "code" => MayEvolve(dna)
    /\ outcome # "code" => MayFail(dna, name)
    /\ activation # "started" => dna.metadata.total_failures < MaxTotalFailures
    /\ LET r == _evolve_organ(World(dna, disk, backups), name, outcome, now)
           w == Was(dna, name, now, cooldown_minutes, track[name].healed)
           i == IF r.ok
                THEN integrate(r.w, running_organs, name, activation, now)
                ELSE [w |-> r.w, running |-> running_organs, raised |-> "none", revert |-> None]
           t1 == TrackEvolved(track[name], name, r, w)
       IN  /\ Commit(i.w)
           /\ running_organs' = i.running
           /\ ret' = Did("live", name, r, w, IF r.ok THEN activation ELSE "none", i.revert)
           /\ track' = [track EXCEPT ![name] =
                           IF r.ok /\ i.raised # "none"
                           THEN TrackFailed(t1, activation) ELSE t1]

\* a running unit's start() raises: OrganThread.run reports it
OrganCrash(name) ==
    /\ name \in running_organs
    /\ MayFail(dna, name)
    /\ LET c == _handle_organ_error(World(dna, disk, backups), running_organs, name, now)
       IN  /\ Commit(c.w)
           /\ running_organs' = c.running
           /\ ret' = Did("crash", name, NoEvolve, "none", "runtime", None)
           /\ track' = [track EXCEPT ![name] = TrackFailed(@, "runtime")]

\* time passes while the orchestrator runs
Elapse ==
    /\ now < MaxUptime
    /\ Tick

\* Genesis.__init__ on the files an earlier run left
InitGenesis ==
    LET e == save(Genome0, Disk0, << >>, TRUE, 0)
        g == load_or_create(e.disk, e.backups, TRUE, 0)
    IN  /\ dna = g.dna[1]
        /\ disk = g.disk
        /\ backups = g.backups
        /\ now = 0
        /\ ret = Ret0
        /\ track = Track0
        /\ verify_integrity = TRUE
        /\ loaded = Loaded0
        /\ seal = Some([dna |-> e.dna, bytes |-> e.bytes, pristine |-> TRUE,
                        digest |-> TRUE])
        /\ running_organs = {}
        /\ bus = Bus0
        /\ io = Io0
        /\ threads = Threads0
        /\ genesis = Genesis0
        /\ \E enabled \in BOOLEAN : soma = Deployed(enabled, "soma.memory.journal")
        /\ max_attempts \in 1..MaxAttempts
        /\ cooldown_minutes = 1
        /\ max_total_organs \in 1..Cardinality(Names)

\* the orchestrator's steps are taken for the pending unit; the other one
\* stays as the genome has it
Units == {"soma.perception.fswatch"}

NextGenesis ==
    \/ Elapse
    \/ \E n \in Units, o \in GenerationOutcomes : EvolveOrgan(n, o)
    \/ \E n \in Units, o \in IntegrationOutcomes : Assimilate(n, o)
    \/ \E n \in Units, o \in GenerationOutcomes, a \in IntegrationOutcomes :
           LiveCycle(n, o, a)
    \/ \E n \in Units : OrganCrash(n)

SpecGenesis == InitGenesis /\ [][NextGenesis]_vars

-----------------------------------------------------------------------------
(* Properties of the circuit breaker, under SpecLedger *)

\* the last step was should_attempt(n)
Asked(n) == ret.op = "should_attempt" /\ ret.name = n

\* C1: after exactly max_attempts add_failure calls for a unit, with no
\* clear_failure or reset_circuit between them, should_attempt returns
\* false and is_circuit_open then returns true.  (The call that finds an
\* open circuit whose cooldown has elapsed is the case of C2.)
C1_OpensAfterMaxAttempts ==
    \A n \in Names :
        (Asked(n) /\ track[n].adds = max_attempts /\ ret.was # "cooled")
            => (ret.value = FALSE /\ is_circuit_open(dna, n) = TRUE)

C1_Witness ==
    \E n \in Names :
        /\ Asked(n) /\ track[n].adds = max_attempts /\ ret.was = "closed"
        /\ max_attempts = MaxAttempts
        /\ ret.value = FALSE /\ is_circuit_open(dna, n)

\* C2: a should_attempt call that finds the circuit open returns false and
\* leaves it open while less than the cooldown has elapsed since
\* circuit_opened_at; once the cooldown has elapsed it returns true and
\* is_circuit_open afterwards returns false.
C2_CooldownGate ==
    \A n \in Names :
        /\ (Asked(n) /\ ret.was = "cooling")
              => (ret.value = FALSE /\ is_circuit_open(dna, n) = TRUE)
        /\ (Asked(n) /\ ret.was = "cooled")
              => (ret.value = TRUE /\ is_circuit_open(dna, n) = FALSE)

C2_Witness ==
    \E n \in Names :
        /\ Asked(n) /\ ret.was = "cooled" /\ ret.value = TRUE
        /\ ~is_circuit_open(dna, n)
        /\ cooldown_minutes = MaxCooldown

\* C4: once should_attempt has closed a unit's circuit because the cooldown
\* elapsed, every later should_attempt for it returns true and the circuit
\* stays closed as long as no new failure is recorded.
C4_HealedStaysClosed ==
    \A n \in Names :
        (Asked(n) /\ ret.was = "healed")
            => (ret.value = TRUE /\ is_circuit_open(dna, n) = FALSE)

\* C7: every record with circuit_open = true has circuit_opened_at set.
C7_OpenHasOpenedAt ==
    \A i \in 1..Len(dna.failures) :
        dna.failures[i].circuit_open => dna.failures[i].circuit_opened_at # None

C7_Witness ==
    \E i \in 1..Len(dna.failures) :
        /\ dna.failures[i].circuit_open
        /\ dna.failures[i].circuit_opened_at = Some(isoformatZ(now))
        /\ now > 0

-----------------------------------------------------------------------------
(* Properties of the orchestrator, under SpecGenesis *)

\* the last step ran _evolve_organ
Evolved == ret.op \in {"evolve", "live"}

\* C3: in both phases the Generator is invoked for a unit only after
\* should_attempt returned true in the same step, never for a unit whose
\* circuit is open with the cooldown not elapsed; when should_attempt
\* returns false the unit is skipped: no generation, no activation, and
\* no failure recorded (the attempt count is as before).
C3_GateBeforeGeneration ==
    Evolved =>
        /\ ret.gen => (ret.value = TRUE /\ ret.was # "cooling")
        /\ ret.value = FALSE =>
              /\ ~ret.gen /\ ~ret.ok /\ ret.added = 0
              /\ AttemptCount(dna, ret.name) = ret.count
              /\ ~IsActive(dna, ret.name)

C3_Witness ==
    /\ Evolved /\ ret.was = "cooling"
    /\ ret.value = FALSE /\ ~ret.gen
    /\ is_circuit_open(dna, ret.name)
    /\ AttemptCount(dna, ret.name) = ret.count

\* C5: each single failure of a unit (a failed generation, materialization
\* or activation, or a crash) raises its attempt_count by exactly one, so
\* a unit with fewer than max_attempts failures whose circuit never opened
\* passes should_attempt.
C5_OneFailureOneCount ==
    /\ \A n \in Units : AttemptCount(dna, n) = track[n].fails
    /\ (Evolved /\ ret.fails < max_attempts /\ ~ret.opened) => ret.value = TRUE

\* C6: a successful generation-and-deployment leaves no failure record and
\* no open circuit for the unit and should_attempt then returns true; the
\* first failure after it puts the attempt count at 1.
C6_SuccessResets ==
    /\ (Evolved /\ ret.ok /\ ret.integrated \in {"none", "started"}) =>
            /\ ~HasRecord(dna, ret.name)
            /\ ~is_circuit_open(dna, ret.name)
            /\ should_attempt(dna, ret.name, max_attempts, cooldown_minutes, now).value
    /\ \A n \in Units : (track[n].won /\ track[n].fails = 1) => AttemptCount(dna, n) = 1

-----------------------------------------------------------------------------
(* Properties of the genome store, under SpecStore *)

\* C8: load() right after save(genome), with the two files as save left
\* them, returns a genome equal to the saved one in every field:
\* blueprints, goals, active set, failure ledger with its circuit fields,
\* and metadata.
C8_SaveLoadRoundTrip ==
    (loaded.status # "none" /\ loaded.pristine)
        => (loaded.status = "ok" /\ loaded.returned /\ loaded.same)

C8_Witness ==
    /\ loaded.status = "ok" /\ loaded.pristine /\ loaded.same
    /\ seal # None
    /\ IsActive(seal[1].dna, StoreName)
    /\ StoreName \in DOMAIN seal[1].dna.blueprint
    /\ HasRecord(seal[1].dna, StoreName)
    /\ Record(seal[1].dna, StoreName).error_type = "VALIDATION"
    /\ Record(seal[1].dna, StoreName).circuit_open
    /\ seal[1].dna.metadata.last_modified = isoformatZ(now)

\* C9: after a save, when the genome bytes on disk are no longer those that
\* save or recalculate_integrity_hash last sealed, load() fails with an
\* error and returns no genome.
C9_AlteredBytesFailLoad ==
    (loaded.status # "none" /\ seal # None /\ ~loaded.sealed)
        => (~loaded.returned /\ loaded.status = "DNACorruptedError")

\* C10: for a genome saved with a digest, load() returns a genome only if
\* it compared the bytes with the stored digest; with the digest file
\* absent or unreadable it fails.
C10_FailsClosed ==
    (loaded.returned /\ seal # None /\ seal[1].digest) => loaded.compared

-----------------------------------------------------------------------------
(* DNARepository.save step by step, with a reader of the genome path that  *)
(* does not take the repository's lock (another process).  A file that is  *)
(* being written holds Partial(k): its first k chunks.                     *)

Chunks == 2
MaxSaves == 2
MaxAlter == 2

Partial(k) == <<"partial", k>>

\* a save whose temporary path is the genome path itself
temp_path_is_dna_path == "dna"

temp_path == "tmp"

\* the files after `bytes` were put at `path`
write_at(dk, tmp, path, bytes) ==
    IF path = "dna"
    THEN [disk |-> [dk EXCEPT !.dna = Some(bytes)], tmp |-> tmp]
    ELSE [disk |-> dk, tmp |-> Some(bytes)]

\* Path.rename: the target is replaced in one step
rename(dk, tmp, path) ==
    IF path = "dna"
    THEN [disk |-> dk, tmp |-> tmp]
    ELSE [disk |-> [dk EXCEPT !.dna = tmp, !.dna_readable = TRUE], tmp |-> None]

\* Path.unlink of the temporary file, if it exists
unlink_temp(dk, tmp, path) ==
    IF path = "dna"
    THEN [disk |-> [dk EXCEPT !.dna = None], tmp |-> tmp]
    ELSE [disk |-> dk, tmp |-> None]

IoFrame == UNCHANGED <<now, max_attempts, cooldown_minutes, track, verify_integrity,
                       loaded, genesisVars, bus, genesis, threads>>

\* the in-memory genome changes between two saves
Alter(name) ==
    /\ io.pc = "idle"
    /\ dna.metadata.total_evolutions + AttemptCount(dna, name) < MaxAlter
    /\ dna' \in {mark_active(dna, name, now),
                 add_failure(dna, name, "runtime", "boom")}
    /\ ret' = Ret0
    /\ UNCHANGED <<disk, backups, seal, io>>
    /\ IoFrame

\* save: the lock is taken and the existing file is copied to a backup
SaveBackup ==
    /\ io.pc = "idle"
    /\ io.saves < MaxSaves
    /\ backups' = IF disk.dna # None THEN _create_backup(backups, disk, now)
                  ELSE backups
    /\ io' = [io EXCEPT !.pc = "serialize", !.prev = disk.dna, !.content = None,
                        !.saves = @ + 1]
    /\ ret' = [Ret0 EXCEPT !.op = "save"]
    /\ UNCHANGED <<dna, disk, seal>>
    /\ IoFrame

\* save: last_modified is stamped and the genome is serialized
SaveSerialize ==
    /\ io.pc = "serialize"
    /\ dna' = [dna EXCEPT !.metadata.last_modified = isoformatZ(now)]
    /\ io' = [io EXCEPT !.pc = "open", !.content = Some(json_dumps(to_dict(dna')))]
    /\ UNCHANGED <<ret, disk, backups, seal>>
    /\ IoFrame

\* save: open(temp_path, "wb") creates or truncates the file
SaveOpen ==
    /\ io.pc = "open"
    /\ LET f == write_at(disk, io.tmp, temp_path, Partial(0))
       IN  /\ disk' = f.disk
           /\ io' = [io EXCEPT !.pc = "write", !.tmp = f.tmp]
    /\ UNCHANGED <<dna, ret, backups, seal>>
    /\ IoFrame

\* save: f.write reaches the file chunk by chunk; after the last chunk the
\* file holds the whole document
SaveWrite ==
    /\ io.pc = "write"
    /\ LET at   == IF temp_path = "dna" THEN disk.dna[1] ELSE io.tmp[1]
           k    == at[2] + 1
           f    == write_at(disk, io.tmp, temp_path,
                            IF k = Chunks THEN io.content[1] ELSE Partial(k))
       IN  /\ disk' = f.disk
           /\ io' = [io EXCEPT !.pc = IF k = Chunks THEN "rename" ELSE "write",
                               !.tmp = f.tmp]
    /\ UNCHANGED <<dna, ret, backups, seal>>
    /\ IoFrame

\* save: the write raises (the disk is full): the temporary file is
\* removed and the exception leaves save
SaveWriteFails ==
    /\ io.pc = "write"
    /\ LET f == unlink_temp(disk, io.tmp, temp_path)
       IN  /\ disk' = f.disk
           /\ io' = [io EXCEPT !.pc = "idle", !.tmp = f.tmp]
    /\ ret' = [Ret0 EXCEPT !.op = "save", !.value = FALSE]
    /\ UNCHANGED <<dna, backups, seal>>
    /\ IoFrame

\* save: temp_path.rename(dna_path)
SaveRename ==
    /\ io.pc = "rename"
    /\ LET f == rename(disk, io.tmp, temp_path)
       IN  /\ disk' = f.disk
           /\ io' = [io EXCEPT !.pc = "hash", !.tmp = f.tmp]
    /\ UNCHANGED <<dna, ret, backups, seal>>
    /\ IoFrame

\* save: the digest is written when verify_integrity is set, and save returns
SaveHash ==
    /\ io.pc = "hash"
    /\ disk' = IF verify_integrity
               THEN _save_hash(disk, _compute_hash(io.content[1])) ELSE disk
    /\ io' = [io EXCEPT !.pc = "idle"]
    /\ seal' = Some([dna |-> dna, bytes |-> io.content[1], pristine |-> TRUE,
                     digest |-> verify_integrity])
    /\ ret' = [Ret0 EXCEPT !.op = "save"]
    /\ UNCHANGED <<dna, backups>>
    /\ IoFrame

\* a reader opens the genome path and reads what the file holds
ReadGenomeFile ==
    /\ disk.dna # None
    /\ io.observed # disk.dna
    /\ io' = [io EXCEPT !.observed = disk.dna]
    /\ UNCHANGED <<dna, ret, disk, backups, seal>>
    /\ IoFrame

InitSaveSteps ==
    /\ InitAt(0)
    /\ max_attempts = MaxAttempts
    /\ cooldown_minutes = MaxCooldown

NextSaveSteps ==
    \/ Alter(StoreName)
    \/ SaveBackup
    \/ SaveSerialize
    \/ SaveOpen
    \/ SaveWrite
    \/ SaveWriteFails
    \/ SaveRename
    \/ SaveHash
    \/ ReadGenomeFile

SpecSaveSteps == InitSaveSteps /\ [][NextSaveSteps]_vars

\* a file content that is a whole serialized genome
WholeDocument(f) == f # None /\ json_loads(f[1]) # None

\* C11: at every step of save the genome file is absent (never saved), or
\* holds the whole document it held when the save began, or the whole new
\* document; what a concurrent reader reads is always a whole document
C11_NeverPartial ==
    /\ disk.dna # None => WholeDocument(disk.dna)
    /\ io.pc # "idle" =>
           disk.dna \in {io.prev} \cup (IF io.content # None THEN {io.content} ELSE {})
    /\ io.pc \in {"serialize", "open", "write", "rename"} => disk.dna = io.prev
    /\ io.observed # None => WholeDocument(io.observed)

\* a second save is half way through writing, and the reader has just read
\* the complete previous document
C11_Witness ==
    /\ io.pc = "write"
    /\ io.tmp = Some(Partial(1))
    /\ io.prev # None
    /\ io.observed = io.prev
    /\ io.content # io.prev

-----------------------------------------------------------------------------
(* Genesis.__init__ on whatever files are there.  Between two runs of the  *)
(* program the files are altered from outside.  `ret` keeps what the last  *)
(* construction found and did.                                             *)

\* the genome file can no longer be read (its permissions were changed)
GenomeUnreadable ==
    /\ disk.dna # None /\ disk.dna_readable
    /\ disk' = [disk EXCEPT !.dna_readable = FALSE]
    /\ ret' = Ret0
    /\ UNCHANGED <<dna, backups, seal, io>>
    /\ IoFrame

\* the genome file is replaced by a JSON document that is no genome
GenomeInvalid ==
    /\ disk.dna # None /\ disk.dna # Some(JsonList)
    /\ disk' = [disk EXCEPT !.dna = Some(JsonList)]
    /\ ret' = Ret0
    /\ UNCHANGED <<dna, backups, seal, io>>
    /\ IoFrame

\* the genome file is removed
DeleteGenome ==
    /\ disk.dna # None
    /\ disk' = [disk EXCEPT !.dna = None, !.dna_readable = TRUE]
    /\ ret' = Ret0
    /\ UNCHANGED <<dna, backups, seal, io>>
    /\ IoFrame

\* Genesis.__init__: DNARepository(dna_path).load_or_create(); an exception
\* leaves the constructor
Construct ==
    LET r == load_or_create(disk, backups, verify_integrity, now) IN
    /\ dna' = IF r.dna # None THEN r.dna[1] ELSE dna
    /\ disk' = r.disk
    /\ backups' = r.backups
    /\ ret' = [op |-> "construct", name |-> "", value |-> r.dna # None,
               was |-> load(disk, verify_integrity).status,
               before |-> [disk |-> disk, backups |-> backups]]
    /\ UNCHANGED <<seal, io>>
    /\ IoFrame

\* the constructed orchestrator works on the genome and saves it
Work(name) ==
    /\ ret.op \in {"construct", "work"} /\ ret.value
    /\ dna.metadata.total_evolutions < MaxEvolutions
    /\ LET s == save(mark_active(dna, name, now), disk, backups, verify_integrity, now)
       IN  /\ dna' = s.dna
           /\ disk' = s.disk
           /\ backups' = s.backups
    /\ ret' = [op |-> "work", name |-> name, value |-> TRUE, was |-> "none"]
    /\ UNCHANGED <<seal, io>>
    /\ IoFrame

InitStartup ==
    /\ InitAt(0)
    /\ max_attempts = MaxAttempts
    /\ cooldown_minutes = MaxCooldown

NextStartup ==
    \/ Construct
    \/ Work(StoreName)
    \/ TamperGenome
    \/ DeleteHash
    \/ HashUnreadable
    \/ GenomeUnreadable
    \/ GenomeInvalid
    \/ DeleteGenome

SpecStartup == InitStartup /\ [][NextStartup]_vars

\* the genome file exists but cannot be read, or its bytes fail the
\* integrity check, or they are not a valid genome document
Unusable(dk, verify) ==
    /\ dk.dna # None
    /\ \/ ~dk.dna_readable
       \/ verify /\ ~_verify_hash(dk, dk.dna[1]).ok
       \/ json_loads(dk.dna[1]) = None

\* C12: load_or_create writes a fresh seed genome only when there is no
\* genome file; when the file exists and is unusable, the construction
\* fails and the genome file, the digest and the backups are as they were
C12_NoDegradedStartup ==
    ret.op = "construct" =>
        /\ ret.before.disk.dna = None =>
               ret.value /\ dna = from_dict(json_loads(disk.dna[1])[1])
        /\ ret.before.disk.dna # None =>
               disk = ret.before.disk /\ backups = ret.before.backups
        /\ Unusable(ret.before.disk, verify_integrity) =>
               /\ ~ret.value
               /\ ret.was \in {"DNACorruptedError", "DNAValidationError"}
               /\ disk = ret.before.disk
               /\ backups = ret.before.backups

\* a constructor has just failed on a genome file that does not match its
\* digest, with backups of earlier saves in the backup directory
C12_Witness ==
    /\ ret.op = "construct"
    /\ ~ret.value
    /\ disk.dna # None /\ disk.dna_readable
    /\ disk.hash # None /\ disk.hash_readable
    /\ disk.hash[1] # _compute_hash(disk.dna[1])
    /\ backups # << >>

-----------------------------------------------------------------------------
(* The genome on disk against the genome in memory *)

\* the genome that load() would build from the genome file
Persisted(dk) == from_dict(json_loads(dk.dna[1])[1])

\* C13: after every step of the orchestrator the persisted genome equals
\* the genome in memory
C13_PersistedAfterEveryMutation ==
    ret.op \in {"evolve", "assimilate", "live", "crash"} => Persisted(disk) = dna

-----------------------------------------------------------------------------
(* The EventBus used from its callers' threads: subscribe, unsubscribe,    *)
(* publish and publish_async, before a worker is started.  `ret` keeps the *)
(* last call with the bus as it was when the call was made.                *)

BusFrame == UNCHANGED <<dna, now, max_attempts, cooldown_minutes, track, storeVars,
                        genesisVars, io, genesis, threads>>

Subscribe(event_type, callback) ==
    /\ Len(bus.subscribers[event_type]) < MaxListeners
    /\ bus' = subscribe(bus, event_type, callback)
    /\ ret' = [op |-> "subscribe", name |-> event_type, value |-> TRUE, was |-> "none"]
    /\ BusFrame

\* the unsubscribe function that subscribe returned is called
Unsubscribe(event_type, callback) ==
    /\ \E k \in 1..Len(bus.subscribers[event_type]) :
           bus.subscribers[event_type][k] = callback
    /\ bus' = unsubscribe(bus, event_type, callback)
    /\ ret' = [op |-> "unsubscribe", name |-> event_type, value |-> TRUE,
               was |-> "none"]
    /\ BusFrame

\* publish(Event(event_type)) from a caller's thread
Publish(event_type, raising) ==
    /\ bus.next_id <= MaxEvents
    /\ LET event == Event(bus.next_id, event_type)
           r     == publish(bus, event, raising)
       IN  /\ bus' = [r.b EXCEPT !.next_id = @ + 1]
           /\ ret' = [op |-> "publish", name |-> event_type, value |-> ~r.escaped,
                      was |-> "none", event |-> event, raising |-> raising,
                      invoked |-> r.invoked, before |-> bus]
    /\ BusFrame

\* publish_async(Event(event_type)) from a caller's thread
PublishAsync(event_type) ==
    /\ bus.next_id <= MaxEvents
    /\ LET event == Event(bus.next_id, event_type)
       IN  /\ bus' = [publish_async(bus, event) EXCEPT !.next_id = @ + 1]
           /\ ret' = [op |-> "publish_async", name |-> event_type, value |-> TRUE,
                      was |-> "none", event |-> event, raising |-> {},
                      invoked |-> << >>, before |-> bus]
    /\ BusFrame

InitBus ==
    /\ InitAt(0)
    /\ max_attempts = MaxAttempts
    /\ cooldown_minutes = MaxCooldown

NextBus ==
    \/ \E t \in Topics, h \in Handlers : Subscribe(t, h)
    \/ \E t \in Topics, h \in Handlers : Unsubscribe(t, h)
    \/ \E t \in Topics, r \in SUBSET Handlers : Publish(t, r)
    \/ \E t \in Topics : PublishAsync(t)

SpecBus == InitBus /\ [][NextBus]_vars

\* the handler invocations the last publish made
Invoked == ret.invoked

\* C14: publish has invoked, by the time it returns, exactly the handlers
\* that were subscribed to the event's topic when it was called, once each
\* and in the order of their registration, with the event, and no other
C14_PublishInvokesInOrder ==
    ret.op = "publish" =>
        LET listeners == ret.before.subscribers[ret.event.topic]
        IN  /\ Len(Invoked) = Len(listeners)
            /\ \A i \in 1..Len(listeners) :
                   /\ Invoked[i].h = listeners[i]
                   /\ Invoked[i].ev = ret.event.id

\* an event was published to a topic with two different handlers while a
\* handler is subscribed to the other topic
C14_Witness ==
    /\ ret.op = "publish"
    /\ Len(ret.before.subscribers[ret.event.topic]) = 2
    /\ ret.before.subscribers[ret.event.topic][1]
           # ret.before.subscribers[ret.event.topic][2]
    /\ \E t \in Topics : t # ret.event.topic /\ ret.before.subscribers[t] # << >>
    /\ Len(Invoked) = 2

\* C15: a handler that raises does not make publish raise, and every
\* handler registered after it for the topic is still invoked with the
\* event; publishing to a topic without subscribers does not raise
C15_RaisingHandlerIsContained ==
    ret.op = "publish" =>
        LET listeners == ret.before.subscribers[ret.event.topic]
        IN  /\ ret.value
            /\ \A i \in 1..Len(listeners) :
                   listeners[i] \in ret.raising =>
                       \A j \in (i + 1)..Len(listeners) :
                           /\ j <= Len(Invoked)
                           /\ Invoked[j].h = listeners[j]
                           /\ Invoked[j].ev = ret.event.id

\* the first of two handlers raised and the second one, which does not
\* raise, was invoked
C15_Witness ==
    /\ ret.op = "publish"
    /\ Len(Invoked) = 2
    /\ Invoked[1].raised
    /\ ~Invoked[2].raised
    /\ Invoked[2].h # Invoked[1].h

LastOf(s, k) == SubSeq(s, Len(s) - k + 1, Len(s))

-----------------------------------------------------------------------------
(* The worker thread of the EventBus, step by step, with the callers of    *)
(* publish_async, start_worker and stop_worker in their own threads.       *)
(* A worker is at "top" (about to test _running), at "get" (in             *)
(* queue.get), "busy" (in publish, with the event it took) or "dead".      *)
(* The thread in stop_worker is "idle" (not in the call), at "drain" (in   *)
(* the wait loop), at "put" (about to put the sentinel) or at "join".      *)
(* Waits time out only where the awaited thread can take that long: the    *)
(* drain wait while no worker is about to take an event, the join while    *)
(* the worker is inside a handler.                                         *)

Alive == {w \in WorkerIds : bus.workers[w].pc # "dead"}

Delivered == {bus.published[i] : i \in 1..Len(bus.published)}

Called(op, ok) == [op |-> op, name |-> "", value |-> ok, was |-> "none"]

\* start_worker: nothing when _running is set, else a new thread
StartWorker ==
    /\ bus.running \/ \E w \in WorkerIds : bus.workers[w].pc = "dead"
    /\ IF bus.running
       THEN bus' = bus
       ELSE LET w == CHOOSE v \in WorkerIds : bus.workers[v].pc = "dead"
            IN  bus' = [bus EXCEPT !.running = TRUE, !.worker_thread = w,
                                   !.workers[w] = [pc |-> "top", ev |-> Sentinel]]
    /\ ret' = Called("start_worker", ~bus.running)
    /\ BusFrame

\* stop_worker(drain): nothing when _running is clear, else _running is
\* cleared and the drain wait begins
StopWorker(drain) ==
    /\ bus.stopper.pc = "idle"
    /\ IF ~bus.running
       THEN bus' = bus
       ELSE bus' = [bus EXCEPT
                !.running = FALSE,
                !.stopper = [pc |-> IF drain THEN "drain" ELSE "put",
                             drain |-> drain, timed_out |-> FALSE,
                             pending |-> {bus.queue[i].id : i \in 1..Len(bus.queue)}
                                         \ {Sentinel.id}]]
    /\ ret' = Called("stop_worker", bus.running)
    /\ BusFrame

\* stop_worker: the wait loop finds the queue empty
StopDrained ==
    /\ bus.stopper.pc = "drain"
    /\ bus.queue = << >>
    /\ bus' = [bus EXCEPT !.stopper.pc = "put"]
    /\ ret' = Called("drained", TRUE)
    /\ BusFrame

\* stop_worker: the timeout elapses with events still in the queue
StopTimeout ==
    /\ bus.stopper.pc = "drain"
    /\ bus.queue # << >>
    /\ \A w \in WorkerIds : bus.workers[w].pc \in {"dead", "busy"}
    /\ bus' = [bus EXCEPT !.stopper.pc = "put", !.stopper.timed_out = TRUE]
    /\ ret' = Called("drained", FALSE)
    /\ BusFrame

\* stop_worker: self._queue.put(None), which waits for room
StopPut ==
    /\ bus.stopper.pc = "put"
    /\ Len(bus.queue) < bus.maxsize
    /\ bus' = [bus EXCEPT !.queue = Append(@, Sentinel), !.stopper.pc = "join"]
    /\ ret' = Called("put", TRUE)
    /\ BusFrame

\* stop_worker: join(timeout=1.0) returns, the thread having ended or not
StopJoin ==
    /\ bus.stopper.pc = "join"
    /\ bus.workers[bus.worker_thread].pc \in {"dead", "busy"}
    /\ bus' = [bus EXCEPT !.stopper.pc = "idle"]
    /\ ret' = Called("join", bus.workers[bus.worker_thread].pc = "dead")
    /\ BusFrame

\* _worker_loop: while self._running
WorkerTop(w) ==
    /\ bus.workers[w].pc = "top"
    /\ bus' = [bus EXCEPT !.workers[w].pc = IF bus.running THEN "get" ELSE "dead"]
    /\ ret' = Called("while", bus.running)
    /\ BusFrame

\* _worker_loop: queue.get returns an item; the sentinel ends the loop
WorkerGet(w) ==
    /\ bus.workers[w].pc = "get"
    /\ bus.queue # << >>
    /\ bus' = [bus EXCEPT !.queue = Tail(@),
                          !.workers[w] = IF Head(bus.queue) = Sentinel
                                         THEN [pc |-> "dead", ev |-> Sentinel]
                                         ELSE [pc |-> "busy", ev |-> Head(bus.queue)]]
    /\ ret' = Called("get", Head(bus.queue) # Sentinel)
    /\ BusFrame

\* _worker_loop: queue.get raises queue.Empty after its timeout
WorkerEmpty(w) ==
    /\ bus.workers[w].pc = "get"
    /\ bus.queue = << >>
    /\ bus' = [bus EXCEPT !.workers[w].pc = "top"]
    /\ ret' = Called("empty", TRUE)
    /\ BusFrame

\* _worker_loop: self.publish(event) returns
WorkerPublish(w, raising) ==
    /\ bus.workers[w].pc = "busy"
    /\ bus' = [publish(bus, bus.workers[w].ev, raising).b EXCEPT
                   !.workers[w] = [pc |-> "top", ev |-> Sentinel]]
    /\ ret' = Called("deliver", TRUE)
    /\ BusFrame

\* the topic and the handler the worker is exercised with
WorkerTopic == "organ.evolved"
WorkerHandler == "h1"

NextWorker ==
    \/ Subscribe(WorkerTopic, WorkerHandler)
    \/ PublishAsync(WorkerTopic)
    \/ StartWorker
    \/ \E d \in BOOLEAN : StopWorker(d)
    \/ StopDrained
    \/ StopTimeout
    \/ StopPut
    \/ StopJoin
    \/ \E w \in WorkerIds : WorkerTop(w)
    \/ \E w \in WorkerIds : WorkerGet(w)
    \/ \E w \in WorkerIds : WorkerEmpty(w)
    \/ \E w \in WorkerIds, r \in {{}, {WorkerHandler}} : WorkerPublish(w, r)

SpecWorker == InitBus /\ [][NextWorker]_vars

\* C17: stop_worker(drain=True) drains before the worker stops: while it
\* waits and its timeout has not elapsed, the worker has not stopped with
\* an event undelivered that was queued before the call; and when the wait
\* ends without a timeout, every such event is delivered or being delivered
C17_DrainsBeforeStopping ==
    /\ bus.stopper.pc = "drain" /\ Alive = {} => bus.stopper.pending \subseteq Delivered
    /\ bus.stopper.pc \in {"put", "join"} /\ bus.stopper.drain /\ ~bus.stopper.timed_out
           => bus.stopper.pending \subseteq
                  Delivered \cup {bus.workers[w].ev.id : w \in Alive}

\* C18: one delivery worker at a time, and the events are delivered in the
\* order in which publish_async accepted them, each at most once
C18_OneWorkerInOrder ==
    /\ Cardinality(Alive) <= 1
    /\ \A i, j \in 1..Len(bus.published) : i < j => bus.published[i] < bus.published[j]

-----------------------------------------------------------------------------
(* Goal satisfaction.  fnmatch works on the characters of a name; here a   *)
(* name or pattern is spelled as its sequence of segments, dots and "*".   *)

Spell ==
    ("soma.perception.fswatch" :> <<"soma", ".", "perception", ".", "fswatch">>)
    @@ ("soma.memory.journal" :> <<"soma", ".", "memory", ".", "journal">>)
    @@ ("soma.perception.*" :> <<"soma", ".", "perception", ".", "*">>)
    @@ ("soma.memory.*" :> <<"soma", ".", "memory", ".", "*">>)
    @@ ("soma.interface.*" :> <<"soma", ".", "interface", ".", "*">>)
    @@ ("soma.*" :> <<"soma", ".", "*">>)
    @@ ("*.journal" :> <<"*", ".", "journal">>)

RECURSIVE Glob(_, _)
\* the whole of n matches p, where "*" stands for any run of characters
Glob(n, p) ==
    IF p = << >> THEN n = << >>
    ELSE IF Head(p) = "*"
         THEN Glob(n, Tail(p)) \/ (n # << >> /\ Glob(Tail(n), p))
         ELSE n # << >> /\ Head(n) = Head(p) /\ Glob(Tail(n), Tail(p))

fnmatch(module, pattern) == Glob(Spell[module], Spell[pattern])

\* whether one pattern is matched by some active module
pattern_matched(d, pattern) ==
    \E k \in 1..Len(d.active_modules) : fnmatch(d.active_modules[k], pattern)

\* check_goal_satisfaction that is content with one matched pattern
check_goal_satisfaction_any(d) ==
    LET hit(g) == /\ ~g.satisfied
                  /\ g.required_organs # << >>
                  /\ \E k \in 1..Len(g.required_organs) :
                         pattern_matched(d, g.required_organs[k])
    IN  [dna   |-> [d EXCEPT !.goals = [i \in 1..Len(d.goals) |->
                        IF hit(d.goals[i]) THEN [d.goals[i] EXCEPT !.satisfied = TRUE]
                        ELSE d.goals[i]]],
         newly |-> Cardinality({i \in 1..Len(d.goals) : hit(d.goals[i])})]

\* check_goal_satisfaction that sets the flag to what the active modules
\* say now
check_goal_satisfaction_recomputed(d) ==
    LET met(g) == /\ g.required_organs # << >>
                  /\ \A k \in 1..Len(g.required_organs) :
                         pattern_matched(d, g.required_organs[k])
    IN  [dna   |-> [d EXCEPT !.goals = [i \in 1..Len(d.goals) |->
                        [d.goals[i] EXCEPT !.satisfied = met(d.goals[i])]]],
         newly |-> Cardinality({i \in 1..Len(d.goals) :
                                   ~d.goals[i].satisfied /\ met(d.goals[i])})]

\* check_goal_satisfaction: [dna, newly]
check_goal_satisfaction(d) ==
    LET hit(g) == /\ ~g.satisfied
                  /\ g.required_organs # << >>
                  /\ \A k \in 1..Len(g.required_organs) :
                         pattern_matched(d, g.required_organs[k])
    IN  [dna   |-> [d EXCEPT !.goals = [i \in 1..Len(d.goals) |->
                        IF hit(d.goals[i]) THEN [d.goals[i] EXCEPT !.satisfied = TRUE]
                        ELSE d.goals[i]]],
         newly |-> Cardinality({i \in 1..Len(d.goals) : hit(d.goals[i])})]

\* the goals a genome is seeded with: the default ones, or goals given by
\* the configuration, among them one without patterns, one with two
\* patterns and one that is satisfied already
GoalSeeds ==
    { DefaultGoals,
      << NewGoal("Abstract goal", << >>),
         NewGoal("Must have full pipeline", <<"soma.perception.*", "soma.memory.*">>),
         [NewGoal("Already done", <<"soma.*">>) EXCEPT !.satisfied = TRUE],
         NewGoal("Must keep a journal", <<"*.journal">>) >> }

GoalFrame == UNCHANGED <<now, max_attempts, cooldown_minutes, track, storeVars,
                         genesisVars, auxVars>>

\* a unit becomes active
Activate(name) ==
    /\ ~IsActive(dna, name)
    /\ dna.metadata.total_evolutions < MaxEvolutions
    /\ dna' = mark_active(dna, name, now)
    /\ ret' = [op |-> "mark_active", name |-> name, value |-> 0, was |-> "none",
               before |-> dna]
    /\ GoalFrame

\* a unit is taken from the active set
Deactivate(name) ==
    /\ IsActive(dna, name)
    /\ dna' = mark_inactive(dna, name)
    /\ ret' = [op |-> "mark_inactive", name |-> name, value |-> 0, was |-> "none",
               before |-> dna]
    /\ GoalFrame

\* Architect.reflect: the goals are checked against the active set
CheckGoalSatisfaction ==
    LET r == check_goal_satisfaction(dna) IN
    /\ dna' = r.dna
    /\ ret' = [op |-> "check_goal_satisfaction", name |-> "", value |-> r.newly,
               was |-> "none", before |-> dna]
    /\ GoalFrame

InitGoals ==
    /\ \E seed \in GoalSeeds : dna = [create_tabula_rasa EXCEPT !.goals = seed]
    /\ now = 0
    /\ max_attempts = MaxAttempts
    /\ cooldown_minutes = MaxCooldown
    /\ ret = Ret0
    /\ track = Track0
    /\ disk = Disk0
    /\ backups = << >>
    /\ verify_integrity = TRUE
    /\ loaded = Loaded0
    /\ seal = None
    /\ running_organs = {}
    /\ max_total_organs = MaxTotalOrgans
    /\ bus = Bus0
    /\ io = Io0
    /\ threads = Threads0
    /\ genesis = Genesis0
    /\ soma = Soma0

NextGoals ==
    \/ \E n \in Names : Activate(n)
    \/ \E n \in Names : Deactivate(n)
    \/ CheckGoalSatisfaction

SpecGoals == InitGoals /\ [][NextGoals]_vars

\* every pattern of goal g matches some member of the active set of d
AllMatched(d, g) ==
    \A k \in 1..Len(g.required_organs) :
        \E m \in 1..Len(d.active_modules) :
            fnmatch(d.active_modules[m], g.required_organs[k])

\* C20: check_goal_satisfaction marks an unsatisfied goal with patterns
\* exactly when all its patterns are matched by the active set, leaves
\* every other goal as it was, and returns the number of goals it marked
C20_GoalSatisfaction ==
    ret.op = "check_goal_satisfaction" =>
        LET old == ret.before IN
        /\ Len(dna.goals) = Len(old.goals)
        /\ \A i \in 1..Len(old.goals) :
               /\ dna.goals[i].satisfied =
                      (\/ old.goals[i].satisfied
                       \/ /\ old.goals[i].required_organs # << >>
                          /\ AllMatched(old, old.goals[i]))
               /\ dna.goals[i] = [old.goals[i] EXCEPT !.satisfied = dna.goals[i].satisfied]
        /\ ret.value = Cardinality({i \in 1..Len(old.goals) :
                                       ~old.goals[i].satisfied /\ dna.goals[i].satisfied})
        /\ dna = [old EXCEPT !.goals = dna.goals]

\* one call marked a goal, left a goal with one of its two patterns
\* unmatched, and left a goal without patterns
C20_Witness ==
    /\ ret.op = "check_goal_satisfaction"
    /\ ret.value = 1
    /\ \E i \in 1..Len(dna.goals) :
           /\ ~dna.goals[i].satisfied
           /\ Len(dna.goals[i].required_organs) = 2
           /\ \E k \in 1..2 : pattern_matched(ret.before, dna.goals[i].required_organs[k])
    /\ \E i \in 1..Len(dna.goals) :
           ~dna.goals[i].satisfied /\ dna.goals[i].required_organs = << >>

-----------------------------------------------------------------------------
(* The Architect.  What gateway.think answers is an input of reflect: no   *)
(* response (None), or Some JSON plan naming a module, "COMPLETE" included. *)

_should_reflect(d) ==
    IF d.failures # << >> THEN TRUE
    ELSE IF Cardinality(DOMAIN d.blueprint) - Len(d.active_modules) > 0 THEN FALSE
    ELSE TRUE

\* _process_response on a plan {module_name, description}: [w, value]
_process_response(w, module_name, description, t) ==
    IF module_name = "COMPLETE" THEN [w |-> w, value |-> FALSE]
    ELSE LET is_failing == HasRecord(w.dna, module_name)
             \* newly_satisfied = check_goal_satisfaction(); save if any
             goals(w1, c) ==
                 IF c.newly > 0 THEN _save_dna([w1 EXCEPT !.dna = c.dna], t) ELSE w1
             checked(w1, modified) ==
                 [w |-> goals(w1, check_goal_satisfaction(w1.dna)), value |-> modified]
             \* if modified: add_blueprint and save
             planned(modified) ==
                 checked(IF modified
                         THEN _save_dna([w EXCEPT !.dna =
                                  add_blueprint(@, module_name, description, << >>)], t)
                         ELSE w,
                         modified)
         IN  planned(module_name \notin DOMAIN w.dna.blueprint \/ is_failing)

\* Architect.reflect: [w, value]
reflect(w, response, t) ==
    IF ~_should_reflect(w.dna) THEN [w |-> w, value |-> FALSE]
    ELSE IF response = None THEN [w |-> w, value |-> FALSE]
    ELSE _process_response(w, response[1], "revised design", t)

-----------------------------------------------------------------------------
(* Genesis: the buildable units, and the loops of _evolution_cycle,        *)
(* _assimilate_all and _live.  A dict of pending blueprints is given as    *)
(* the sequence of its keys, in the order the dict iterates.               *)

max_iterations == 10

\* str.replace("*", ""), on spellings
replace_star(s) == LET keep(c) == c # "*" IN SelectSeq(s, keep)

\* the body of the loop over blueprint.dependencies
dep_satisfied(d, dep) ==
    IF \E i \in 1..Len(Spell[dep]) : Spell[dep][i] = "*"
    THEN LET pattern == replace_star(Spell[dep])
         IN  \E k \in 1..Len(d.active_modules) :
                 startswith(Spell[d.active_modules[k]], pattern)
    ELSE IsActive(d, dep)

\* _get_buildable_organs that is content with one satisfied dependency
_get_buildable_organs_any(d, pending) ==
    LET buildable(n) ==
            LET deps == d.blueprint[n].dependencies
            IN  deps = << >> \/ \E k \in 1..Len(deps) : dep_satisfied(d, deps[k])
    IN  SelectSeq(pending, buildable)

_get_buildable_organs(d, pending) ==
    LET buildable(n) ==
            LET deps == d.blueprint[n].dependencies
            IN  deps = << >> \/ \A k \in 1..Len(deps) : dep_satisfied(d, deps[k])
    IN  SelectSeq(pending, buildable)

\* seq[:k]
Take(seq, k) == SubSeq(seq, 1, IF k < Len(seq) THEN k ELSE Len(seq))

\* the orders a dict with the keys S can iterate in
Orders(S) ==
    {s \in [1..Cardinality(S) -> S] : \A i, j \in 1..Cardinality(S) : s[i] = s[j] => i = j}

\* what one pass of a loop over a unit did: the genome before and after
\* _evolve_organ, what the Generator gave if it was invoked, what
\* _evolve_organ returned, whether the unit's dependencies were satisfied
\* then, and the registry after the activation that followed
Pass(w, name, outcome, r, activation, run) ==
    [name |-> name, gate |-> r.gate, gen |-> r.gen, ok |-> r.ok, added |-> r.added,
     generated |-> IF r.gen THEN outcome ELSE "none",
     written |-> r.written, published |-> r.published,
     before |-> [active_modules |-> w.dna.active_modules, failures |-> w.dna.failures],
     after |-> [active_modules |-> r.w.dna.active_modules, failures |-> r.w.dna.failures],
     buildable |-> _get_buildable_organs(w.dna, <<name>>) # << >>,
     activation |-> activation, running |-> run]

RECURSIVE EvolveEach(_, _, _, _, _)
\* for organ_name, blueprint in organs_this_cycle: _evolve_organ(...)
EvolveEach(w, run, organs, outcome, t) ==
    IF organs = << >> THEN [w |-> w, log |-> << >>]
    ELSE LET name == Head(organs)
             then(pass, rest) == [w |-> rest.w, log |-> <<pass>> \o rest.log]
             evolved(r) == then(Pass(w, name, outcome[name], r, "none", run),
                                EvolveEach(r.w, run, Tail(organs), outcome, t))
         IN  evolved(_evolve_organ(w, name, outcome[name], t))

RECURSIVE IntegrateEach(_, _, _, _, _)
\* the loop of _assimilate_all: [w, running]
IntegrateEach(w, run, to_integrate, activation, t) ==
    IF to_integrate = << >> THEN [w |-> w, running |-> run]
    ELSE LET name == Head(to_integrate)
             integrated(i) ==
                 IntegrateEach(IF i.raised = "ImportFailedError" THEN heal(i.w, name, t)
                               ELSE i.w,
                               i.running, Tail(to_integrate), activation, t)
         IN  integrated(integrate(w, run, name, activation[name], t))

\* _assimilate_all: [w, running]
_assimilate_all(w, run, max_concurrent, activation, t) ==
    LET not_running(m)  == m \notin run
        to_integrate    == SelectSeq(w.dna.active_modules, not_running)
        available_slots == max_concurrent - Cardinality(run)
    IN  IF to_integrate = << >> THEN [w |-> w, running |-> run]
        ELSE IF available_slots <= 0 THEN [w |-> w, running |-> run]
        ELSE IntegrateEach(w, run, Take(to_integrate, available_slots), activation, t)

RECURSIVE LiveEach(_, _, _, _, _, _)
\* the loop of _live over the pending units: [w, running, log]
LiveEach(w, run, organs, outcome, activation, t) ==
    IF organs = << >> THEN [w |-> w, running |-> run, log |-> << >>]
    ELSE LET name == Head(organs)
             then(pass, rest) ==
                 [w |-> rest.w, running |-> rest.running, log |-> <<pass>> \o rest.log]
             integrated(r, i) ==
                 then(Pass(w, name, outcome[name], r,
                           IF r.ok THEN activation[name] ELSE "none", i.running),
                      LiveEach(i.w, i.running, Tail(organs), outcome, activation, t))
             \* if self._evolve_organ(...): self.assimilator.integrate(...)
             evolved(r) ==
                 integrated(r, IF r.ok THEN integrate(r.w, run, name, activation[name], t)
                               ELSE [w |-> r.w, running |-> run, raised |-> "none",
                                     revert |-> None])
         IN  evolved(_evolve_organ(w, name, outcome[name], t))

\* the model's bounds on the genome's counters
Bounded(d) ==
    /\ d.metadata.total_evolutions <= MaxEvolutions
    /\ d.metadata.total_failures <= MaxTotalFailures
    /\ \A k \in 1..Len(d.failures) : d.failures[k].attempt_count <= MaxCount
    /\ \A n \in DOMAIN d.blueprint : d.blueprint[n].version <= MaxVersion

CycleFrame ==
    UNCHANGED <<now, max_attempts, cooldown_minutes, track, verify_integrity, loaded,
                max_total_organs, bus, io, threads>>

CommitCycle(w) ==
    /\ dna' = w.dna
    /\ disk' = w.disk
    /\ backups' = w.backups
    /\ seal' = Sealed(w)
    /\ soma' = w.soma
    /\ CycleFrame

\* what a step did: the units its loop was over and what each pass did
Cycled(op, organs, log) ==
    [op |-> op, name |-> "", value |-> TRUE, was |-> "none", organs |-> organs,
     log |-> log, stop |-> genesis.stop]

\* awaken, up to the first iteration of _evolution_cycle
Awaken ==
    /\ genesis.phase = "constructed"
    /\ genesis' = [genesis EXCEPT !.phase = "evolving", !.iteration = 0]
    /\ ret' = Cycled("awaken", << >>, << >>)
    /\ UNCHANGED <<dna, disk, backups, seal, running_organs, soma>>
    /\ CycleFrame

\* what the Generator, the activation of a unit and the Architect's gateway
\* do in these loops: the Generator answers with code or without, the unit
\* starts or is rejected by the validation (a running unit that fails is
\* CycleCrash), the gateway gives no response or a plan
CycleGenerations == {"code", "no_code"}
CycleActivations == {"started", "validation"}
CycleResponses == {None, Some("COMPLETE"), Some("soma.perception.fswatch")}

\* the units of a loop, as a set
Range(seq) == {seq[k] : k \in 1..Len(seq)}

\* one iteration of the loop of _evolution_cycle; awaken goes on with
\* _assimilate_all when the loop ends.  (The order the pending dict
\* iterates in and what the Generator does for each unit of the loop are
\* inputs of the step.)
EvolutionIteration(response, generations) ==
    /\ genesis.phase = "evolving"
    /\ \E w1 \in {reflect(World(dna, disk, backups), response, now).w} :
       \E pending \in {get_pending_blueprints(w1.dna)} :
       \E order \in Orders(pending) :
       \E organs_this_cycle \in {Take(_get_buildable_organs(w1.dna, order),
                                      genesis.max_organs_per_cycle)} :
       \E outcome \in [Range(organs_this_cycle) -> generations] :
       \E e \in {EvolveEach(w1, running_organs, organs_this_cycle, outcome, now)} :
             LET last == \/ pending = {}
                         \/ organs_this_cycle = << >>
                         \/ genesis.iteration + 1 = max_iterations
             IN  /\ Bounded(e.w.dna)
                 /\ CommitCycle(e.w)
                 /\ genesis' = [genesis EXCEPT
                                  !.phase = IF last THEN "assimilating" ELSE @,
                                  !.iteration = IF last THEN 0 ELSE @ + 1]
                 /\ ret' = Cycled("evolution", organs_this_cycle, e.log)
                 /\ UNCHANGED running_organs

\* awaken: _assimilate_all, then self._running = True
AssimilateAll(activations) ==
    /\ genesis.phase = "assimilating"
    /\ \E activation \in [Range(dna.active_modules) -> activations] :
       \E a \in {_assimilate_all(World(dna, disk, backups), running_organs,
                                  genesis.max_concurrent_organs, activation, now)} :
           /\ Bounded(a.w.dna)
           /\ CommitCycle(a.w)
           /\ running_organs' = a.running
           /\ genesis' = [genesis EXCEPT !.phase = "live", !._running = TRUE]
           /\ ret' = Cycled("assimilation", << >>, << >>)

\* one pass of the loop of _live that finds _running set
LiveIteration(response, generations, activations) ==
    /\ genesis.phase = "live"
    /\ genesis._running
    /\ \E w1 \in {reflect(World(dna, disk, backups), response, now).w} :
       \E order \in Orders(get_pending_blueprints(w1.dna)) :
       \E organs \in {Take(order, genesis.max_organs_per_cycle)} :
       \E outcome \in [Range(organs) -> generations] :
       \E activation \in [{n \in Range(organs) : outcome[n] = "code"} -> activations] :
       \E l \in {LiveEach(w1, running_organs, organs, outcome, activation, now)} :
                 /\ Bounded(l.w.dna)
                 /\ CommitCycle(l.w)
                 /\ running_organs' = l.running
                 /\ ret' = Cycled("live", organs, l.log)
                 /\ UNCHANGED genesis

\* the loop of _live finds _running clear: _shutdown
Shutdown ==
    /\ genesis.phase = "live"
    /\ ~genesis._running
    /\ \E w \in {_save_dna(World(dna, disk, backups), now)} : CommitCycle(w)
    /\ genesis' = [genesis EXCEPT !.phase = "stopped"]
    /\ ret' = Cycled("shutdown", << >>, << >>)
    /\ UNCHANGED running_organs

\* SIGINT or SIGTERM is delivered: the handler __init__ installed runs
StopSignal ==
    /\ genesis.phase # "stopped"
    /\ genesis' = [genesis EXCEPT !._running = FALSE, !.stop = TRUE]
    /\ ret' = Cycled("signal", << >>, << >>)
    /\ UNCHANGED <<dna, disk, backups, seal, running_organs, soma>>
    /\ CycleFrame

\* a running unit's start() raises while the orchestrator is alive
CycleCrash(name) ==
    /\ genesis.phase # "stopped"
    /\ name \in running_organs
    /\ \E c \in {_handle_organ_error(World(dna, disk, backups), running_organs, name, now)} :
           /\ Bounded(c.w.dna)
           /\ CommitCycle(c.w)
           /\ running_organs' = c.running
           /\ ret' = Cycled("crash", << >>, << >>)
           /\ UNCHANGED genesis

\* the genomes an earlier run left: a journal that needs a perception
\* unit, with or without a blueprint for one
CycleGenomes ==
    LET g1 == add_blueprint(create_tabula_rasa, "soma.memory.journal",
                            "keep a journal", <<"soma.perception.*">>)
    IN  {g1, add_blueprint(g1, "soma.perception.fswatch", "watch the file system", << >>)}

\* Genesis.__init__ on the files an earlier run left
InitCycle ==
    \E g0 \in CycleGenomes :
      LET e == save(g0, Disk0, << >>, TRUE, 0)
          g == load_or_create(e.disk, e.backups, TRUE, 0)
      IN  /\ dna = g.dna[1]
          /\ disk = g.disk
          /\ backups = g.backups
          /\ now = 0
          /\ ret = Ret0
          /\ track = Track0
          /\ verify_integrity = TRUE
          /\ loaded = Loaded0
          /\ seal = Some([dna |-> e.dna, bytes |-> e.bytes, pristine |-> TRUE,
                          digest |-> TRUE])
          /\ running_organs = {}
          /\ bus = Bus0
          /\ io = Io0
          /\ threads = Threads0
          /\ max_attempts = 2
          /\ cooldown_minutes = 1
          /\ max_total_organs \in 1..Cardinality(Names)
          /\ \E c \in 1..max_total_organs :
                 genesis = [Genesis0 EXCEPT !.max_concurrent_organs = c,
                                            !.max_organs_per_cycle = Cardinality(Names)]
          /\ soma = Soma0

\* the cycles of an orchestrator that is not told to stop
NextCycle ==
    \/ Awaken
    \/ \E r \in CycleResponses : EvolutionIteration(r, CycleGenerations)
    \/ AssimilateAll(CycleActivations)
    \/ \E r \in CycleResponses : LiveIteration(r, CycleGenerations, CycleActivations)
    \/ \E n \in Names : CycleCrash(n)

SpecCycle == InitCycle /\ [][NextCycle]_vars

\* the main thread's steps from awaken() to the end of _shutdown, with a
\* Generator that answers with code or without and units that start
MainThread ==
    \/ Awaken
    \/ EvolutionIteration(None, CycleGenerations)
    \/ AssimilateAll({"started"})
    \/ LiveIteration(None, CycleGenerations, {"started"})
    \/ Shutdown

\* ... and the stop signal, delivered at any time
NextLifecycle ==
    \/ MainThread
    \/ StopSignal

SpecLifecycle == InitCycle /\ [][NextLifecycle]_vars

\* The main thread is never held up for ever: every call it makes returns
\* and every sleep ends.  This is weak fairness of MainThread, written
\* out: the main thread can take a step until the orchestrator has
\* stopped, and a step is its own when it is not the signal handler's.
SpecLifecycleFair ==
    SpecLifecycle /\ ([]<>(genesis.phase = "stopped") \/ []<><<ret'.op # "signal">>_vars)

-----------------------------------------------------------------------------
(* Properties of the orchestrator's cycles, under SpecCycle *)

\* C21: goal satisfaction is monotonic: once a goal's satisfied flag is
\* true, no step of the orchestrator (mark_inactive, add_failure, an
\* opening circuit, check_goal_satisfaction, the auto-rollback after a
\* rejected activation) sets it back to false, and no goal is dropped.
C21_SatisfiedIsMonotonic ==
    [][\A i \in 1..Len(dna.goals) :
          dna.goals[i].satisfied
              => (i <= Len(dna'.goals) /\ dna'.goals[i] = dna.goals[i])]_vars

\* a satisfied goal whose pattern no active unit matches any more, after
\* the activation that removed the unit was rolled back
C21_Witness ==
    /\ \E i \in 1..Len(dna.goals) :
           dna.goals[i].satisfied /\ ~AllMatched(dna, dna.goals[i])
    /\ \E k \in 1..Len(dna.failures) :
           dna.failures[k].error_message = "Auto-Reverted due to critical failure"

\* the last step was a pass of one of the generating loops
Looped == ret.op \in {"evolution", "live"}

\* C22: whenever a successful generation-and-deployment makes the active
\* set contain a match for every required pattern of a goal, that goal's
\* satisfied flag is true at the end of the same cycle, whatever the
\* Architect's gateway answered.
C22_SatisfiedWithinCycle ==
    (Looped /\ \E k \in 1..Len(ret.log) : ret.log[k].ok)
        => \A i \in 1..Len(dna.goals) :
               (dna.goals[i].required_organs # << >> /\ AllMatched(dna, dna.goals[i]))
                   => dna.goals[i].satisfied

-----------------------------------------------------------------------------
(* _get_buildable_organs on its own: genomes whose blueprints depend on    *)
(* blueprint names and on wildcard prefixes, in every state of the active  *)
(* set.                                                                    *)

DependencyLists ==
    { << >>, <<"soma.perception.fswatch">>, <<"soma.memory.journal">>,
      <<"soma.perception.*">>, <<"soma.memory.*">>, <<"soma.*">>,
      <<"soma.perception.*", "soma.memory.*">>,
      <<"soma.perception.fswatch", "soma.memory.*">> }

BuildableGenomes ==
    { add_blueprint(add_blueprint(create_tabula_rasa, "soma.perception.fswatch",
                                  "watch the file system", df),
                    "soma.memory.journal", "keep a journal", dj) :
          df \in DependencyLists, dj \in DependencyLists }

\* Genesis._get_buildable_organs(dna.get_pending_blueprints()); `earlier`
\* is what it returned for these units before the last mark_active
GetBuildableOrgans ==
    /\ \E pending \in Orders(get_pending_blueprints(dna)) :
           ret' = [op |-> "_get_buildable_organs", name |-> "",
                   value |-> _get_buildable_organs(dna, pending), was |-> "none",
                   pending |-> pending,
                   earlier |-> IF ret.op = "mark_active"
                               THEN Some(_get_buildable_organs(ret.before, pending))
                               ELSE None]
    /\ UNCHANGED dna
    /\ GoalFrame

InitBuildable ==
    /\ dna \in BuildableGenomes
    /\ now = 0
    /\ max_attempts = MaxAttempts
    /\ cooldown_minutes = MaxCooldown
    /\ ret = Ret0
    /\ track = Track0
    /\ disk = Disk0
    /\ backups = << >>
    /\ verify_integrity = TRUE
    /\ loaded = Loaded0
    /\ seal = None
    /\ running_organs = {}
    /\ max_total_organs = MaxTotalOrgans
    /\ bus = Bus0
    /\ io = Io0
    /\ threads = Threads0
    /\ genesis = Genesis0
    /\ soma = Soma0

NextBuildable ==
    \/ \E n \in Names : Activate(n)
    \/ \E n \in Names : Deactivate(n)
    \/ GetBuildableOrgans

SpecBuildable == InitBuildable /\ [][NextBuildable]_vars

\* a dependency is met: a name by that active name, a wildcard by an
\* active name it matches
DependencyMet(d, dep) ==
    IF dep \in Names THEN IsActive(d, dep) ELSE pattern_matched(d, dep)

AllDependenciesMet(d, n) ==
    \A k \in 1..Len(d.blueprint[n].dependencies) :
        DependencyMet(d, d.blueprint[n].dependencies[k])

\* C23: _get_buildable_organs returns exactly the pending blueprints all
\* of whose dependencies (blueprint names or wildcard prefixes) are met by
\* the active set, in the order of the pending dict; one without
\* dependencies is always returned, one with an unmet dependency never.
C23_BuildableIsExact ==
    ret.op = "_get_buildable_organs" =>
        LET met(n) == AllDependenciesMet(dna, n)
        IN  /\ ret.value = SelectSeq(ret.pending, met)
            /\ \A n \in Range(ret.pending) :
                   /\ dna.blueprint[n].dependencies = << >> => n \in Range(ret.value)
                   /\ ~met(n) => n \notin Range(ret.value)

\* a unit with a wildcard dependency that was left out before the last
\* mark_active and is returned by the computation that follows it
C23_Witness ==
    /\ ret.op = "_get_buildable_organs"
    /\ ret.earlier # None
    /\ \E n \in Range(ret.value) :
          /\ n \notin Range(ret.earlier[1])
          /\ dna.blueprint[n].dependencies = <<"soma.perception.*">>

-----------------------------------------------------------------------------
(* More properties of the orchestrator's cycles, under SpecCycle *)

\* C24: in every phase, Live cycles included, the Generator is invoked for
\* a pending blueprint only if all of its dependency patterns are satisfied
\* by the active set at that moment.
C24_GeneratesOnlyBuildable ==
    Looped => \A k \in 1..Len(ret.log) : ret.log[k].gen => ret.log[k].buildable

-----------------------------------------------------------------------------
(* ProviderGateway._generate_with_validation.  Texts are sequences of      *)
(* lines or words.  What the Generator answers at each attempt is an input *)
(* of the call: nothing, or a text holding one of four bodies, bare or in  *)
(* a fenced block (its fence lines are written <fence>).  The diagnostics   *)
(* are shorter than the 500 characters _sanitize_for_prompt keeps.         *)

LlmMaxRetries == 3

Bodies == {"organ_a", "organ_b", "bad_syntax", "imports_subprocess"}

Texts ==
    UNION { { <<c>>, <<"<fence>python", c, "<fence>">>,
              <<"Here is the code:", "<fence>python", c, "<fence>">> } : c \in Bodies }

GeneratorAnswers == {None} \cup {Some(x) : x \in Texts}

IsFence(line) == line \in {"<fence>", "<fence>python"}

RECURSIVE InBlocks(_, _)
\* the lines of a text that are inside a fenced block
InBlocks(text, in_block) ==
    IF text = << >> THEN << >>
    ELSE IF IsFence(Head(text)) THEN InBlocks(Tail(text), ~in_block)
    ELSE IF in_block THEN <<Head(text)>> \o InBlocks(Tail(text), in_block)
    ELSE InBlocks(Tail(text), in_block)

_clean_code(text) ==
    IF \E k \in 1..Len(text) : IsFence(text[k])
    THEN LET lines == InBlocks(text, FALSE) IN IF lines # << >> THEN lines ELSE text
    ELSE text

\* validate_code: [is_valid, error_message]
validate_code(code) ==
    IF code \in {<<"organ_a">>, <<"organ_b">>}
    THEN [is_valid |-> TRUE, error_message |-> None]
    ELSE IF code = <<"imports_subprocess">>
    THEN [is_valid |-> FALSE,
          error_message |-> Some(<<"Forbidden imports/calls detected:", "subprocess.",
                                   "IGNORE">>)]
    ELSE [is_valid |-> FALSE,
          error_message |-> Some(<<"Syntax error at line 1:", "invalid syntax">>)]

dangerous_patterns == {"IGNORE", "DISREGARD", "FORGET"}

Bracketed == ("IGNORE" :> "[IGNORE]") @@ ("DISREGARD" :> "[DISREGARD]")
             @@ ("FORGET" :> "[FORGET]")

_sanitize_for_prompt(text) ==
    [k \in 1..Len(text) |->
        IF text[k] \in dangerous_patterns THEN Bracketed[text[k]] ELSE text[k]]

_get_fix_instruction(error_message) ==
    IF Head(error_message) = "Syntax error at line 1:"
    THEN "Fix the syntax error. Return valid Python code only, no markdown."
    ELSE IF Head(error_message) = "Forbidden imports/calls detected:"
    THEN "Remove the forbidden imports."
    ELSE "Fix the error and try again."

\* the error feedback appended to the prompt
Feedback(error_message) ==
    <<"CRITICAL ERROR:">> \o _sanitize_for_prompt(error_message)
        \o <<_get_fix_instruction(error_message)>>

RECURSIVE AttemptsReturningLast(_, _, _, _, _)
\* _generate_with_validation that returns what the last attempt produced
AttemptsReturningLast(prompt, current_prompt, answers, attempt, max_retries) ==
    IF attempt > max_retries THEN [value |-> None, prompts |-> << >>]
    ELSE LET response == answers[attempt] IN
         IF response = None
         THEN LET rest == AttemptsReturningLast(prompt, current_prompt, answers,
                                                attempt + 1, max_retries)
              IN  [rest EXCEPT !.prompts = <<current_prompt>> \o @]
         ELSE LET code == _clean_code(response[1])
                  v    == validate_code(code)
              IN  IF ~v.is_valid /\ attempt < max_retries
                  THEN LET rest == AttemptsReturningLast(prompt,
                                       prompt \o Feedback(v.error_message[1]),
                                       answers, attempt + 1, max_retries)
                       IN  [rest EXCEPT !.prompts = <<current_prompt>> \o @]
                  ELSE [value |-> Some(code), prompts |-> <<current_prompt>>]

RECURSIVE Attempts(_, _, _, _, _)
\* the loop `for attempt in range(max_retries)`: [value, prompts], the
\* return value and the prompts the Generator was invoked with
Attempts(prompt, current_prompt, answers, attempt, max_retries) ==
    IF attempt > max_retries THEN [value |-> None, prompts |-> << >>]
    ELSE LET response == answers[attempt] IN
         IF response = None
         THEN LET rest == Attempts(prompt, current_prompt, answers, attempt + 1,
                                   max_retries)
              IN  [rest EXCEPT !.prompts = <<current_prompt>> \o @]
         ELSE LET code == _clean_code(response[1])
                  v    == validate_code(code)
              IN  IF ~v.is_valid
                  THEN LET rest == Attempts(prompt,
                                            prompt \o Feedback(v.error_message[1]),
                                            answers, attempt + 1, max_retries)
                       IN  [rest EXCEPT !.prompts = <<current_prompt>> \o @]
                  ELSE [value |-> Some(code), prompts |-> <<current_prompt>>]

_generate_with_validation_returning_last(prompt, answers, max_retries) ==
    AttemptsReturningLast(prompt, prompt, answers, 1, max_retries)

_generate_with_validation(prompt, answers, max_retries) ==
    Attempts(prompt, prompt, answers, 1, max_retries)

\* gateway.generate_code(module_name, ...) with max_retries as configured
\* and the answers the Generator is going to give
GenerateCode ==
    /\ ret.op = "gateway"
    /\ LET r == _generate_with_validation(<<"agent_factory", ret.name>>, ret.answers,
                                          ret.max_retries)
       IN  ret' = [ret EXCEPT !.op = "generate_code", !.value = r.value,
                              !.prompts = r.prompts]
    /\ UNCHANGED <<dna, now, max_attempts, cooldown_minutes, track, storeVars,
                   genesisVars, auxVars>>

InitGateway ==
    /\ dna = create_tabula_rasa
    /\ now = 0
    /\ max_attempts = MaxAttempts
    /\ cooldown_minutes = MaxCooldown
    /\ \E n \in Names, k \in 1..LlmMaxRetries :
         \E answers \in [1..k -> GeneratorAnswers] :
           ret = [op |-> "gateway", name |-> n, value |-> None, was |-> "none",
                  prompts |-> << >>, answers |-> answers, max_retries |-> k]
    /\ track = Track0
    /\ disk = Disk0
    /\ backups = << >>
    /\ verify_integrity = TRUE
    /\ loaded = Loaded0
    /\ seal = None
    /\ running_organs = {}
    /\ max_total_organs = MaxTotalOrgans
    /\ bus = Bus0
    /\ io = Io0
    /\ threads = Threads0
    /\ genesis = Genesis0
    /\ soma = Soma0

NextGateway == GenerateCode

SpecGateway == InitGateway /\ [][NextGateway]_vars

\* the Validator's verdict on an answer, by its body: accepted, rejected
\* with a diagnostic, or no answer at all
BodyOf(answer) == CHOOSE c \in Bodies : \E k \in 1..Len(answer[1]) : answer[1][k] = c

Accepted(answer) == answer # None /\ BodyOf(answer) \in {"organ_a", "organ_b"}

Rejected(answer) == answer # None /\ ~Accepted(answer)

DiagnosticOf(answer) ==
    IF BodyOf(answer) = "imports_subprocess"
    THEN <<"Forbidden imports/calls detected:", "subprocess.", "IGNORE">>
    ELSE <<"Syntax error at line 1:", "invalid syntax">>

\* a prompt carries a diagnostic: each of its words is in the prompt, as
\* it is or in brackets
Carries(prompt, diagnostic) ==
    \A k \in 1..Len(diagnostic) :
        \E j \in 1..Len(prompt) :
            \/ prompt[j] = diagnostic[k]
            \/ diagnostic[k] \in dangerous_patterns /\ prompt[j] = Bracketed[diagnostic[k]]

\* C25: one generate_code call invokes the Generator at most max_retries
\* times; it returns an artifact only if the Validator accepted that very
\* artifact, the body of the last answer; after a rejection the next
\* attempt's prompt carries the diagnostic of the rejection; and if every
\* attempt is unavailable or rejected it returns None after max_retries
\* attempts.
C25_GenerateWithValidation ==
    ret.op = "generate_code" =>
        LET n == Len(ret.prompts) IN
        /\ n <= ret.max_retries
        /\ ret.value # None =>
               /\ Accepted(ret.answers[n])
               /\ ret.value[1] = <<BodyOf(ret.answers[n])>>
               /\ \A k \in 1..(n - 1) : ~Accepted(ret.answers[k])
        /\ \A k \in 1..(n - 1) :
               Rejected(ret.answers[k])
                   => Carries(ret.prompts[k + 1], DiagnosticOf(ret.answers[k]))
        /\ (\A k \in 1..ret.max_retries : ~Accepted(ret.answers[k]))
               => (ret.value = None /\ n = ret.max_retries)

\* an artifact returned by the last of max_retries attempts, after an
\* attempt without answer and a rejected one
C25_Witness ==
    /\ ret.op = "generate_code"
    /\ ret.max_retries = LlmMaxRetries
    /\ Len(ret.prompts) = LlmMaxRetries
    /\ ret.answers[1] = None
    /\ Rejected(ret.answers[2])
    /\ ret.value = Some(<<"organ_b">>)

\* the failure records of the units other than `name`
OthersRecords(failures, name) == SelectSeqNot(failures, name)

\* C26: when the Generation Pipeline returns failure for a unit, the
\* orchestrator records a failure of kind generation for that unit (one
\* more attempt), writes no artifact, does not add the unit to the active
\* set, publishes no evolved event, and goes on with the next unit of the
\* loop.
C26_GenerationFailureIsRecorded ==
    Looped =>
        /\ Len(ret.log) = Len(ret.organs)
        /\ \A k \in 1..Len(ret.log) :
             LET p == ret.log[k]
                 d == [failures |-> p.after.failures]
                 b == [failures |-> p.before.failures]
             IN  /\ p.name = ret.organs[k]
                 /\ p.generated = "no_code" =>
                      /\ HasRecord(d, p.name)
                      /\ Record(d, p.name).error_type = "GENERATION"
                      /\ AttemptCount(d, p.name) = AttemptCount(b, p.name) + 1
                      /\ OthersRecords(p.after.failures, p.name)
                             = OthersRecords(p.before.failures, p.name)
                      /\ p.written = {}
                      /\ p.after.active_modules = p.before.active_modules
                      /\ \A j \in 1..Len(p.after.active_modules) :
                             p.after.active_modules[j] # p.name
                      /\ p.published = << >>
                      /\ ~p.ok

\* a loop over two units that went on with the second after the
\* Generator gave no code for the first
C26_Witness ==
    /\ Looped
    /\ Len(ret.log) = 2
    /\ ret.log[1].generated = "no_code"
    /\ ret.log[2].gen

\* C27: a successful generation-and-deployment of unit N adds N to the
\* active set, once, publishes exactly one evolved event naming N,
\* removes N's failure record, and leaves the failure records and the
\* active-set membership of all other units as they were.
C27_SuccessFrame ==
    Looped =>
        \A k \in 1..Len(ret.log) :
            LET p == ret.log[k] IN
            p.ok =>
              /\ p.after.active_modules = Append(p.before.active_modules, p.name)
              /\ Cardinality({j \in 1..Len(p.after.active_modules) :
                                 p.after.active_modules[j] = p.name}) = 1
              /\ p.published = <<organ_evolved(p.name)>>
              /\ ~HasRecord([failures |-> p.after.failures], p.name)
              /\ OthersRecords(p.after.failures, p.name)
                     = OthersRecords(p.before.failures, p.name)

\* a success of a unit that had a failure record, while the other unit
\* had one too
C27_Witness ==
    /\ Looped
    /\ \E k \in 1..Len(ret.log) :
         LET p == ret.log[k] IN
         /\ p.ok
         /\ HasRecord([failures |-> p.before.failures], p.name)
         /\ OthersRecords(p.after.failures, p.name) # << >>
         /\ Len(p.after.failures) = Len(p.before.failures) - 1

\* C28: the active set never holds more than max_total_organs names; when
\* the cap is reached _evolve_organ skips the generation, returns False
\* without raising and records no failure.
C28_ActiveSetWithinCap ==
    /\ Len(dna.active_modules) <= max_total_organs
    /\ Looped =>
         \A k \in 1..Len(ret.log) :
            LET p == ret.log[k] IN
            /\ Len(p.after.active_modules) <= max_total_organs
            /\ Len(p.before.active_modules) >= max_total_organs =>
                 /\ ~p.gen /\ ~p.ok /\ p.added = 0
                 /\ p.written = {} /\ p.published = << >>
                 /\ p.after.active_modules = p.before.active_modules
                 /\ \A n \in Names :
                        AttemptCount([failures |-> p.after.failures], n)
                            = AttemptCount([failures |-> p.before.failures], n)

\* a unit whose circuit is closed is passed over because the cap is reached
C28_Witness ==
    /\ Looped
    /\ \E k \in 1..Len(ret.log) :
         LET p == ret.log[k] IN
         /\ p.gate /\ ~p.gen
         /\ Len(p.before.active_modules) = max_total_organs
         /\ Len(dna.active_modules) = max_total_organs

\* C29: the number of units in the running registry never exceeds
\* max_concurrent_organs, in the Assimilating phase and in Live cycles
\* alike.
C29_RunningWithinCap ==
    Cardinality(running_organs) <= genesis.max_concurrent_organs

-----------------------------------------------------------------------------
(* The stop request, under SpecLifecycleFair *)

\* C30: a stop request raised at any time after the orchestrator is
\* constructed, the Evolving and Assimilating phases included, is
\* honored: no Live cycle is started once it has been delivered, and the
\* orchestrator runs _shutdown and reaches Stopped.
C30_StopIsHonored ==
    /\ [][genesis.stop => ret'.op # "live"]_vars
    /\ genesis.stop ~> genesis.phase = "stopped"

-----------------------------------------------------------------------------
(* Auto-rollback, under SpecGenesis *)

\* the last step was an activation that led to trigger_revert
Reverting == ret.op \in {"assimilate", "live"} /\ ret.revert # None

\* C31: on auto-rollback trigger_revert reports the failure through the
\* failure-report callback before it calls revert_last, so that revert_last
\* finds the report in the ledger; and the unit's failure record, with that
\* report counted, is in the ledger in memory and in the genome file after
\* the revert, whether revert_last returned True or False
C31_ReportsBeforeRevert ==
    Reverting =>
        LET calls == ret.revert[1].calls IN
        /\ Len(calls) = 2
        /\ calls[1].call = "on_failure_report"
        /\ calls[2].call = "revert_last"
        /\ calls[2].count = calls[1].count + 1
        /\ HasRecord(dna, ret.name)
        /\ Record(dna, ret.name).attempt_count = calls[2].count
        /\ HasRecord(Persisted(disk), ret.name)
        /\ Record(Persisted(disk), ret.name).attempt_count = calls[2].count

\* an activation failed validation, revert_last took the deployment back
\* and the unit's record is in the ledger
C31_Witness ==
    /\ Reverting
    /\ ret.integrated = "validation"
    /\ ret.revert[1].value
    /\ HasRecord(dna, ret.name)
    /\ File(<<"soma", "perception">>, "fswatch", "py") \notin DOMAIN soma.files

\* ... and one where revert_last failed
C31_RevertFailed ==
    /\ Reverting
    /\ ~ret.revert[1].value
    /\ HasRecord(dna, ret.name)

-----------------------------------------------------------------------------
(* The control thread and the threads of the units, step by step.  The     *)
(* control thread is in the loop of _live: it evolves a pending unit and   *)
(* integrates it at once.  A unit's thread (OrganThread.run) is "running"  *)
(* in start(), "crashed" once start() has raised and on_error is called,   *)
(* and then goes through _handle_organ_error and, from there, through      *)
(* _handle_assimilation_failure: "scan" and "write" are the loop and the   *)
(* update of add_failure, "inactive" is mark_inactive, "save" is _save_dna *)
(* and the publication.  No lock is held over the genome, so the steps of  *)
(* the two threads interleave freely; Assimilator._lock is held by         *)
(* integrate from beginning to end, so integrate is one step.  The list    *)
(* comprehension of clear_failure reads the list (`seen` is how much of it *)
(* there was) and the assignment puts the new list in place in a later     *)
(* step.  The units that are evolved here import and validate.             *)

MaxSpawns == 2

Control(pc, name, seen) == [pc |-> pc, name |-> name, seen |-> seen]

ThreadFrame ==
    UNCHANGED <<now, max_attempts, cooldown_minutes, verify_integrity, loaded,
                max_total_organs, bus, io, genesis>>

ThreadRet(op, name) == [op |-> op, name |-> name, value |-> TRUE, was |-> "none"]

\* the update add_failure makes after its loop found the record at `found`
\* (0: none).  The record found is updated where it is now; a new record
\* is appended to the list that self.failures is now.
add_failure_write(d, name, kind, msg, found) ==
    IF found # 0
    THEN IF HasRecord(d, name)
         THEN LET i == FirstIdx(d.failures, name) IN
              [d EXCEPT !.failures[i].attempt_count = @ + 1,
                        !.failures[i].error_type = kind,
                        !.failures[i].error_message = msg]
         ELSE d
    ELSE [d EXCEPT !.failures = Append(@, NewFailure(name, kind, msg)),
                   !.metadata.total_failures = @ + 1]

\* the assignment of clear_failure: the records the comprehension read,
\* without those of `name`
clear_failure_assign(d, name, seen) ==
    [d EXCEPT !.failures = SelectSeqNot(SubSeq(@, 1, seen), name)]

\* _evolve_organ up to mark_active, or up to the loop of add_failure when
\* the Generator gives no code; a closed gate or the cap ends the call
CtlEvolve(name, outcome) ==
    /\ threads.control.pc = "idle"
    /\ name \in get_pending_blueprints(dna)
    /\ threads.organ[name].pc \in {"none", "done"}
    /\ outcome \in {"code", "no_code"}
    /\ outcome = "code" => dna.metadata.total_evolutions < MaxSpawns
    /\ \E g \in {should_attempt(dna, name, max_attempts, cooldown_minutes, now)} :
         IF ~g.value \/ Len(g.dna.active_modules) >= max_total_organs
         THEN /\ dna' = g.dna
              /\ UNCHANGED <<threads, soma>>
         ELSE IF outcome = "no_code"
         THEN /\ dna' = g.dna
              /\ threads' = [threads EXCEPT !.control = Control("scan", name, 0)]
              /\ UNCHANGED soma
         ELSE \E m \in {materialize(soma, name, "code")} :
                /\ m.raised = "none"
                /\ soma' = m.fs
                /\ dna' = mark_active(g.dna, name, now)
                /\ threads' = [threads EXCEPT !.control = Control("clear", name, 0)]
    /\ ret' = ThreadRet("evolve", name)
    /\ UNCHANGED <<track, disk, backups, seal, running_organs>>
    /\ ThreadFrame

\* add_failure on the control thread: the loop over self.failures
CtlScan ==
    /\ threads.control.pc = "scan"
    /\ threads' = [threads EXCEPT !.control.pc = "write",
                       !.control.seen = FirstIdx(dna.failures, threads.control.name)]
    /\ ret' = ThreadRet("scan", threads.control.name)
    /\ UNCHANGED <<dna, track, disk, backups, seal, running_organs, soma>>
    /\ ThreadFrame

\* add_failure on the control thread: the update, and _save_dna
CtlWrite ==
    /\ threads.control.pc = "write"
    /\ \E w \in {_save_dna(World(add_failure_write(dna, threads.control.name,
                     "GENERATION", "LLM failed to generate code", threads.control.seen),
                     disk, backups), now)} :
         /\ dna' = w.dna
         /\ disk' = w.disk
         /\ backups' = w.backups
    /\ track' = [track EXCEPT ![threads.control.name].adds = @ + 1]
    /\ threads' = [threads EXCEPT !.control = Control("idle", "", 0)]
    /\ ret' = ThreadRet("add_failure", threads.control.name)
    /\ UNCHANGED <<seal, running_organs, soma>>
    /\ ThreadFrame

\* clear_failure: the comprehension has read the list
CtlClearRead ==
    /\ threads.control.pc = "clear"
    /\ threads' = [threads EXCEPT !.control.pc = "assign",
                                  !.control.seen = Len(dna.failures)]
    /\ ret' = ThreadRet("clear_read", threads.control.name)
    /\ UNCHANGED <<dna, track, disk, backups, seal, running_organs, soma>>
    /\ ThreadFrame

\* clear_failure: self.failures = the new list
CtlClearAssign ==
    /\ threads.control.pc = "assign"
    /\ dna' = clear_failure_assign(dna, threads.control.name, threads.control.seen)
    /\ track' = [track EXCEPT ![threads.control.name].adds = 0]
    /\ threads' = [threads EXCEPT !.control.pc = "save"]
    /\ ret' = ThreadRet("clear_failure", threads.control.name)
    /\ UNCHANGED <<disk, backups, seal, running_organs, soma>>
    /\ ThreadFrame

\* the rest of _evolve_organ (_save_dna, publish, genealogy.commit) and
\* assimilator.integrate, which starts the unit's thread
CtlIntegrate ==
    /\ threads.control.pc = "save"
    /\ \E w \in {_save_dna(World(dna, disk, backups), now)} :
         /\ dna' = w.dna
         /\ disk' = w.disk
         /\ backups' = w.backups
    /\ soma' = commit(soma, "Evolved").fs
    /\ running_organs' = running_organs \cup {threads.control.name}
    /\ threads' = [threads EXCEPT
           !.control = Control("idle", "", 0),
           !.organ[threads.control.name] =
               IF threads.control.name \in running_organs THEN @
               ELSE [pc |-> "running", found |-> 0, reports |-> 0]]
    /\ ret' = ThreadRet("integrate", threads.control.name)
    /\ UNCHANGED <<track, seal>>
    /\ ThreadFrame

\* start() raises: OrganThread.run catches the exception and calls on_error
OrganRaise(n) ==
    /\ threads.organ[n].pc = "running"
    /\ threads' = [threads EXCEPT !.organ[n].pc = "crashed"]
    /\ ret' = ThreadRet("raise", n)
    /\ UNCHANGED <<dna, track, disk, backups, seal, running_organs, soma>>
    /\ ThreadFrame

\* _handle_organ_error: the unit leaves the registry under the lock, then
\* _report_failure calls on_failure
OrganUnregister(n) ==
    /\ threads.organ[n].pc = "crashed"
    /\ running_organs' = running_organs \ {n}
    /\ threads' = [threads EXCEPT !.organ[n].pc = "scan", !.organ[n].reports = @ + 1]
    /\ ret' = ThreadRet("unregister", n)
    /\ UNCHANGED <<dna, track, disk, backups, seal, soma>>
    /\ ThreadFrame

\* _handle_assimilation_failure, add_failure: the loop over self.failures
OrganScan(n) ==
    /\ threads.organ[n].pc = "scan"
    /\ threads' = [threads EXCEPT !.organ[n].pc = "write",
                                  !.organ[n].found = FirstIdx(dna.failures, n)]
    /\ ret' = ThreadRet("scan", n)
    /\ UNCHANGED <<dna, track, disk, backups, seal, running_organs, soma>>
    /\ ThreadFrame

\* add_failure: the update
OrganWrite(n) ==
    /\ threads.organ[n].pc = "write"
    /\ dna' = add_failure_write(dna, n, "RUNTIME", "boom", threads.organ[n].found)
    /\ track' = [track EXCEPT ![n].adds = @ + 1]
    /\ threads' = [threads EXCEPT !.organ[n].pc = "inactive"]
    /\ ret' = ThreadRet("add_failure", n)
    /\ UNCHANGED <<disk, backups, seal, running_organs, soma>>
    /\ ThreadFrame

\* mark_inactive
OrganInactive(n) ==
    /\ threads.organ[n].pc = "inactive"
    /\ dna' = mark_inactive(dna, n)
    /\ threads' = [threads EXCEPT !.organ[n].pc = "save"]
    /\ ret' = ThreadRet("mark_inactive", n)
    /\ UNCHANGED <<track, disk, backups, seal, running_organs, soma>>
    /\ ThreadFrame

\* _save_dna and the publication of organ.failed: the handler returns and
\* the thread ends
OrganSave(n) ==
    /\ threads.organ[n].pc = "save"
    /\ \E w \in {_save_dna(World(dna, disk, backups), now)} :
         /\ dna' = w.dna
         /\ disk' = w.disk
         /\ backups' = w.backups
    /\ threads' = [threads EXCEPT !.organ[n].pc = "done"]
    /\ ret' = [ThreadRet("organ_error", n) EXCEPT !.value = threads.organ[n].reports]
    /\ UNCHANGED <<track, seal, running_organs, soma>>
    /\ ThreadFrame

\* the genome an earlier run left: two blueprints, nothing active yet
Blueprinted ==
    add_blueprint(add_blueprint(create_tabula_rasa, "soma.perception.fswatch",
                                "watch the file system", << >>),
                  "soma.memory.journal", "keep a journal", << >>)

InitThreads ==
    \E e \in {save(Blueprinted, Disk0, << >>, TRUE, 0)} :
        /\ dna = e.dna
        /\ disk = e.disk
        /\ backups = e.backups
        /\ now = 0
        /\ ret = Ret0
        /\ track = Track0
        /\ verify_integrity = TRUE
        /\ loaded = Loaded0
        /\ seal = None
        /\ running_organs = {}
        /\ bus = Bus0
        /\ io = Io0
        /\ threads = Threads0
        /\ genesis = Genesis0
        /\ soma = Soma0
        /\ max_attempts = 2
        /\ cooldown_minutes = 1
        /\ max_total_organs = MaxTotalOrgans

NextThreads ==
    \/ \E n \in Names, o \in GenerationOutcomes : CtlEvolve(n, o)
    \/ CtlScan
    \/ CtlWrite
    \/ CtlClearRead
    \/ CtlClearAssign
    \/ CtlIntegrate
    \/ \E n \in Names : OrganRaise(n)
    \/ \E n \in Names : OrganUnregister(n)
    \/ \E n \in Names : OrganScan(n)
    \/ \E n \in Names : OrganWrite(n)
    \/ \E n \in Names : OrganInactive(n)
    \/ \E n \in Names : OrganSave(n)

SpecThreads == InitThreads /\ [][NextThreads]_vars

\* C32: when a running unit's start() raises, the exception stays in the
\* unit's thread, and when the handler has returned the unit is out of the
\* running registry, the failure callback has fired exactly once for it,
\* the unit is out of the active set and the ledger holds a RUNTIME record
\* for it, however the steps of the control loop fell in between.
C32_CrashIsRecorded ==
    ret.op = "organ_error" =>
        /\ ret.name \notin running_organs
        /\ ret.value = 1
        /\ ~IsActive(dna, ret.name)
        /\ HasRecord(dna, ret.name)
        /\ Record(dna, ret.name).error_type = "RUNTIME"

\* an add_failure call for the unit is between its loop and its update
Adding(n) ==
    \/ threads.control.pc \in {"scan", "write"} /\ threads.control.name = n
    \/ threads.organ[n].pc \in {"scan", "write"}

RecordsOf(d, n) == Cardinality({i \in 1..Len(d.failures) : d.failures[i].module_name = n})

\* C35: however the control loop and the failure callbacks on the units'
\* threads interleave, the ledger holds at most one record per unit, and
\* no add_failure call is lost: once k calls for a unit have returned since
\* its record was last cleared, its record has attempt_count = k.
C35_NoFailureLost ==
    \A n \in Names :
        /\ RecordsOf(dna, n) <= 1
        /\ ~Adding(n) => AttemptCount(dna, n) = track[n].adds

-----------------------------------------------------------------------------
(* The Materializer on its own: materialize is called with every kind of   *)
(* name, on a root directory that is empty or has a repository in soma/.   *)

Codes == {"code", "patched"}

Materialize(module_name, code) ==
    /\ \E m \in {materialize(soma, module_name, code)} :
         /\ soma' = m.fs
         /\ ret' = [op |-> "materialize", name |-> module_name, value |-> m.path,
                    was |-> "none", raised |-> m.raised, before |-> soma]
    /\ UNCHANGED <<dna, now, max_attempts, cooldown_minutes, track, storeVars,
                   running_organs, max_total_organs, auxVars>>

InitMaterialize ==
    \E fs \in {NoSoma, Soma0} :
        /\ dna = create_tabula_rasa
        /\ now = 0
        /\ ret = Ret0
        /\ track = Track0
        /\ disk = Disk0
        /\ backups = << >>
        /\ verify_integrity = TRUE
        /\ loaded = Loaded0
        /\ seal = None
        /\ running_organs = {}
        /\ max_total_organs = MaxTotalOrgans
        /\ bus = Bus0
        /\ io = Io0
        /\ threads = Threads0
        /\ genesis = Genesis0
        /\ soma = fs
        /\ max_attempts = MaxAttempts
        /\ cooldown_minutes = MaxCooldown

NextMaterialize == \E n \in ModuleNames, c \in Codes : Materialize(n, c)

SpecMaterialize == InitMaterialize /\ [][NextMaterialize]_vars

\* a name in the kernel's namespace, seaa.*
InProtectedNamespace(module_name) == startswith(ModuleSpell[module_name], <<"seaa", ".">>)

\* C33: materialize of a name in the kernel's protected namespace (seaa.*)
\* fails with KernelProtectionError and leaves every file and directory
\* as it was.
C33_KernelProtection ==
    (ret.op = "materialize" /\ InProtectedNamespace(ret.name)) =>
        /\ ret.raised = "KernelProtectionError"
        /\ soma = ret.before

-----------------------------------------------------------------------------
(* The per-cycle slots.  A dict iterates in the order its keys were        *)
(* inserted, and get_pending_blueprints keeps that order: BlueprintKeys is *)
(* the order of the genome's blueprints.  Here the first blueprint is one  *)
(* the Generator may have no code for, the second is the journal, without  *)
(* dependencies, and max_organs_per_cycle (3 in the code) is scaled down   *)
(* to one slot for two units.  The Architect gets no response.             *)

BlueprintKeys == <<"soma.perception.fswatch", "soma.memory.journal">>

SlotsPerCycle == 1

\* list(pending.items()), in the dict's order
items(d) == LET pending(n) == n \in get_pending_blueprints(d) IN SelectSeq(BlueprintKeys, pending)

\* one iteration of the loop of _evolution_cycle
SlotEvolution ==
    /\ genesis.phase = "evolving"
    /\ \E w1 \in {reflect(World(dna, disk, backups), None, now).w} :
       \E organs_this_cycle \in {Take(_get_buildable_organs(w1.dna, items(w1.dna)),
                                      genesis.max_organs_per_cycle)} :
       \E outcome \in [Range(organs_this_cycle) -> CycleGenerations] :
       \E e \in {EvolveEach(w1, running_organs, organs_this_cycle, outcome, now)} :
             LET last == \/ items(w1.dna) = << >>
                         \/ organs_this_cycle = << >>
                         \/ genesis.iteration + 1 = max_iterations
             IN  /\ Bounded(e.w.dna)
                 /\ CommitCycle(e.w)
                 /\ genesis' = [genesis EXCEPT
                                  !.phase = IF last THEN "assimilating" ELSE @,
                                  !.iteration = IF last THEN 0 ELSE @ + 1]
                 /\ ret' = Cycled("evolution", organs_this_cycle, e.log)
                 /\ UNCHANGED running_organs

\* a cycle of _live is told from the one before it by its parity
Even(r) == r.op = "live" /\ r.value

\* one pass of the loop of _live
SlotLive ==
    /\ genesis.phase = "live"
    /\ genesis._running
    /\ \E w1 \in {reflect(World(dna, disk, backups), None, now).w} :
       \E organs \in {Take(items(w1.dna), genesis.max_organs_per_cycle)} :
       \E outcome \in [Range(organs) -> CycleGenerations] :
       \E activation \in [{n \in Range(organs) : outcome[n] = "code"} -> {"started"}] :
       \E l \in {LiveEach(w1, running_organs, organs, outcome, activation, now)} :
                 /\ Bounded(l.w.dna)
                 /\ CommitCycle(l.w)
                 /\ running_organs' = l.running
                 /\ ret' = [Cycled("live", organs, l.log) EXCEPT !.value = ~Even(ret)]
                 /\ UNCHANGED genesis

\* time passes between two steps
SlotElapse ==
    /\ now < MaxUptime
    /\ now' = now + 1
    /\ UNCHANGED <<dna, max_attempts, cooldown_minutes, ret, track, storeVars,
                   genesisVars, auxVars>>

SlotGenome ==
    add_blueprint(add_blueprint(create_tabula_rasa, BlueprintKeys[1],
                                "watch the file system", << >>),
                  BlueprintKeys[2], "keep a journal", << >>)

InitSlots ==
    \E e \in {save(SlotGenome, Disk0, << >>, TRUE, 0)} :
        /\ dna = e.dna
        /\ disk = e.disk
        /\ backups = e.backups
        /\ now = 0
        /\ ret = Ret0
        /\ track = Track0
        /\ verify_integrity = TRUE
        /\ loaded = Loaded0
        /\ seal = Some([dna |-> e.dna, bytes |-> e.bytes, pristine |-> TRUE,
                        digest |-> TRUE])
        /\ running_organs = {}
        /\ bus = Bus0
        /\ io = Io0
        /\ threads = Threads0
        /\ max_attempts \in 1..2
        /\ cooldown_minutes \in 1..MaxCooldown
        /\ max_total_organs = MaxTotalOrgans
        /\ genesis = [Genesis0 EXCEPT !.max_organs_per_cycle = SlotsPerCycle]
        /\ soma = Soma0

NextSlots ==
    \/ Awaken
    \/ SlotEvolution
    \/ AssimilateAll({"started"})
    \/ SlotLive
    \/ SlotElapse

SpecSlots == InitSlots /\ [][NextSlots]_vars

\* The orchestrator keeps cycling: awaken() goes on from one step to the
\* next and the loop of _live sleeps and wakes for ever, so the main
\* thread takes a step again and again (written out over the steps it
\* records in `ret`); and time passes: the clock, which can always advance
\* below the horizon, does advance.
SpecSlotsFair ==
    SpecSlots /\ WF_vars(SlotElapse)
              /\ []<><<ret'.op \in {"awaken", "evolution", "assimilation", "live"}>>_vars

\* the unit is pending, its dependencies are satisfied and its circuit is
\* closed
Eligible(n) ==
    /\ n \in get_pending_blueprints(dna)
    /\ _get_buildable_organs(dna, <<n>>) # << >>
    /\ ~is_circuit_open(dna, n)

\* the last cycle called _evolve_organ for the unit and the Generator was
\* invoked for it
Attempted(n) ==
    /\ ret.op \in {"evolution", "live"}
    /\ \E k \in 1..Len(ret.log) : ret.log[k].name = n /\ ret.log[k].gen

\* C34: a pending blueprint whose dependencies are satisfied and whose
\* circuit is closed is eventually attempted in a later cycle while the
\* orchestrator keeps cycling, even when other pending blueprints are
\* skipped again and again: skipped units do not keep the per-cycle slots.
C34_EligibleIsAttempted ==
    Eligible("soma.memory.journal") ~> Attempted("soma.memory.journal")

-----------------------------------------------------------------------------
(* restore_backup.  A backup is named by the time it was taken at; the     *)
(* genome is changed, saved and restored as time passes.                   *)

\* DNARepository.restore_backup: [status, dna, disk, backups]; the status
\* is "ok" or the exception raised
restore_backup(dk, bk, verify, backup_path, t) ==
    IF backup_path \notin DOMAIN bk
    THEN [status |-> "DNANotFoundError", dna |-> None, disk |-> dk, backups |-> bk]
    ELSE LET copied(bk1) ==
                 IF backup_path \notin DOMAIN bk1
                 THEN [status |-> "FileNotFoundError", dna |-> None, disk |-> dk,
                       backups |-> bk1]
                 ELSE LET loaded_from(dk1) ==
                              [status |-> load(dk1, verify).status,
                               dna |-> load(dk1, verify).dna,
                               disk |-> dk1, backups |-> bk1]
                      IN  loaded_from([dk EXCEPT !.dna = Some(bk1[backup_path])])
         IN  copied(IF dk.dna # None THEN _create_backup(bk, dk, t) ELSE bk)

RestoreBackup(backup_path) ==
    /\ backup_path \in DOMAIN backups
    /\ \E r \in {restore_backup(disk, backups, verify_integrity, backup_path, now)} :
         /\ disk' = r.disk
         /\ backups' = r.backups
         /\ ret' = [op |-> "restore_backup", name |-> "", value |-> r.dna,
                    was |-> "none", status |-> r.status,
                    stored |-> backups[backup_path], current |-> disk.dna,
                    path |-> backup_path, at |-> now]
    /\ loaded' = Loaded0
    /\ UNCHANGED <<dna, now, max_attempts, cooldown_minutes, track, verify_integrity,
                   seal, genesisVars, auxVars>>

InitRestore ==
    /\ InitAt(0)
    /\ max_attempts = MaxAttempts
    /\ cooldown_minutes = MaxCooldown

NextRestore ==
    \/ Tick
    \/ MarkActive(StoreName)
    \/ AddBlueprint(StoreName, "watch the file system", << >>)
    \/ Save
    \/ Load
    \/ \E b \in 0..MaxTime : RestoreBackup(b)

SpecRestore == InitRestore /\ [][NextRestore]_vars

\* C36: restore_backup(b) for an existing backup b, with integrity
\* checking enabled, first backs up the current genome file and then makes
\* the store hold b's genome: it returns the genome stored in b, and a
\* load() that follows returns that same genome.
C36_RestoreReturnsBackup ==
    ret.op = "restore_backup" =>
        /\ ret.current # None =>
               ret.at \in DOMAIN backups /\ backups[ret.at] = ret.current[1]
        /\ ret.status = "ok"
        /\ ret.value = Some(from_dict(json_loads(ret.stored)[1]))
        /\ load(disk, verify_integrity).dna = ret.value

\* a backup taken at an earlier time is restored over a genome saved with
\* its digest, and the load() at the end of restore_backup raises
C36_RestoreRaises ==
    /\ ret.op = "restore_backup"
    /\ ret.path < ret.at
    /\ ret.status = "DNACorruptedError"
    /\ disk.dna = Some(ret.stored)
    /\ load(disk, verify_integrity).status = "DNACorruptedError"

\* ... or returns, because the backup holds the very bytes of the genome
\* file
C36_RestoreOfSameBytes ==
    /\ ret.op = "restore_backup"
    /\ ret.path < ret.at
    /\ ret.status = "ok"

-----------------------------------------------------------------------------
(* The active set against the deployment directory, under SpecCycle *)

\* the unit's source file is in the deployment directory
Materialized(n) == _module_to_path(ModuleSpell[n]) \in DOMAIN soma.files

\* C37: every unit in the active set has its materialized artifact in the
\* deployment directory, in every reachable state: an auto-rollback set
\* off by the failure of one unit undoes that unit's deployment only and
\* never removes the artifact of another unit that stays active.
C37_ActiveIsMaterialized ==
    \A k \in 1..Len(dna.active_modules) : Materialized(dna.active_modules[k])

-----------------------------------------------------------------------------
(* The threads of the bus when none of them is held up: the thread in      *)
(* stop_worker and every worker thread go on whenever they can (a wait     *)
(* ends, a timeout elapses).  Nothing is assumed of the callers: whether   *)
(* and when publish_async, start_worker or stop_worker is called again is  *)
(* up to them.                                                             *)

BusThreads ==
    \/ StopDrained
    \/ StopTimeout
    \/ StopPut
    \/ StopJoin
    \/ \E w \in WorkerIds : WorkerTop(w)
    \/ \E w \in WorkerIds : WorkerGet(w)
    \/ \E w \in WorkerIds : WorkerEmpty(w)
    \/ \E w \in WorkerIds, r \in {{}, {WorkerHandler}} : WorkerPublish(w, r)

SpecWorkerFair == SpecWorker /\ WF_vars(BusThreads)

\* C38: stop_worker returns in bounded time in every reachable state of
\* the bus, also when the queue is full and the worker has left its loop,
\* so that the orchestrator's shutdown goes on to persist the genome.
C38_StopWorkerReturns == (bus.stopper.pc # "idle") ~> (bus.stopper.pc = "idle")

\* stop_worker is in put(None) with the queue full and no worker left to
\* take anything from it
C38_PutBlocked ==
    /\ bus.stopper.pc = "put"
    /\ Len(bus.queue) = bus.maxsize
    /\ Alive = {}

-----------------------------------------------------------------------------
(* Stop and start again.  GenesisRuntime.start runs awaken(), which calls  *)
(* start_worker on the bus of the process; GenesisRuntime.stop ends in     *)
(* _shutdown and its stop_worker, and a later start() begins anew on the   *)
(* same bus.  start_worker is therefore called only when no stop_worker is *)
(* in progress.                                                            *)

StartAgain ==
    /\ bus.stopper.pc = "idle"
    /\ StartWorker

NextRestart ==
    \/ Subscribe(WorkerTopic, WorkerHandler)
    \/ PublishAsync(WorkerTopic)
    \/ StartAgain
    \/ \E d \in BOOLEAN : StopWorker(d)
    \/ StopDrained
    \/ StopTimeout
    \/ StopPut
    \/ StopJoin
    \/ \E w \in WorkerIds : WorkerTop(w)
    \/ \E w \in WorkerIds : WorkerGet(w)
    \/ \E w \in WorkerIds : WorkerEmpty(w)
    \/ \E w \in WorkerIds, r \in {{}, {WorkerHandler}} : WorkerPublish(w, r)

SpecRestart == InitBus /\ [][NextRestart]_vars

\* C39: after stop_worker followed by start_worker on the same bus, the
\* events given to publish_async are delivered again: a sentinel that the
\* earlier stop left in the queue never ends the worker started after it.
\* (A worker takes a sentinel only while _running is clear, that is, while
\* the stop that put it is in effect.)
C39_SentinelEndsNoNewWorker ==
    (ret.op = "get" /\ ~ret.value) => ~bus.running

\* the bus is running, nothing is stopping it, an event is queued and no
\* worker is left to deliver it
C39_Undelivered ==
    /\ bus.running
    /\ bus.stopper.pc = "idle"
    /\ Alive = {}
    /\ \E i \in 1..Len(bus.queue) : bus.queue[i] # Sentinel

-----------------------------------------------------------------------------
(* A save that is interrupted: the process is killed between two steps of  *)
(* save and the files stay as they are, the temporary file included.       *)
(* `ret` keeps the step the save was at, the genome file as it was when    *)
(* the save began and the bytes the save was writing.                      *)

SaveInterrupted ==
    /\ io.pc # "idle"
    /\ io' = [io EXCEPT !.pc = "idle"]
    /\ ret' = [op |-> "interrupted", name |-> "", value |-> FALSE, was |-> io.pc,
               prev |-> io.prev, content |-> io.content]
    /\ UNCHANGED <<dna, disk, backups, seal>>
    /\ IoFrame

NextInterrupted ==
    \/ Alter(StoreName)
    \/ SaveBackup
    \/ SaveSerialize
    \/ SaveOpen
    \/ SaveWrite
    \/ SaveWriteFails
    \/ SaveRename
    \/ SaveHash
    \/ ReadGenomeFile
    \/ SaveInterrupted

SpecInterrupted == InitSaveSteps /\ [][NextInterrupted]_vars

\* the genome that the bytes of a whole document hold
GenomeOf(bytes) == Some(from_dict(json_loads(bytes)[1]))

\* C40: when a save is interrupted at any point between its steps, after a
\* genome was saved before, a load() that follows, with integrity checking
\* enabled, succeeds and returns the genome saved before or the new one.
C40_InterruptedSaveLoads ==
    (ret.op = "interrupted" /\ ret.prev # None) =>
        /\ load(disk, verify_integrity).status = "ok"
        /\ \/ load(disk, verify_integrity).dna = GenomeOf(ret.prev[1])
           \/ /\ ret.content # None
              /\ load(disk, verify_integrity).dna = GenomeOf(ret.content[1])

\* the save was interrupted after the rename and before the digest was
\* written: the genome file is the new one and the digest the old one
C40_StaleDigest ==
    /\ ret.op = "interrupted"
    /\ ret.was = "hash"
    /\ ret.prev # None
    /\ disk.dna = ret.content
    /\ disk.hash = Some(_compute_hash(ret.prev[1]))
    /\ load(disk, verify_integrity).status = "DNACorruptedError"

\* the save was interrupted before the rename: the file saved before is
\* still there and loads
C40_BeforeRename ==
    /\ ret.op = "interrupted"
    /\ ret.was \in {"serialize", "open", "write", "rename"}
    /\ ret.prev # None
    /\ load(disk, verify_integrity).dna = GenomeOf(ret.prev[1])

=============================================================================
